---- MODULE Spec2Model ----
(***************************************************************************)
(* Verification model of the cheetah daemon and its per-app supervisor:    *)
(* the blue/green port manager (pkg/port), the app registry with its       *)
(* state file (pkg/api/server.go), the event fan-out to subscribers and    *)
(* the template database provisioner (pkg/pg).                             *)
(*                                                                         *)
(* One module holds several specifications over the same variables; each   *)
(* specification drives one subsystem and leaves the others untouched:     *)
(*   SpecSwap       sequential Manager.Swap calls of one supervisor        *)
(*   SpecSwapRace   a rebuild and an env reload calling Swap concurrently  *)
(*   SpecHealth     swaps reported to the registry by Client.HealthUpdate  *)
(*   SpecReport     SetActive and ReportHealth called concurrently         *)
(*   SpecWatch      the polling watcher, files being written and deleted   *)
(*   SpecWatchLoop  the same watcher with a loop that never stops          *)
(*   SpecReg        register / deregister / appendLogs / updateHealth      *)
(*   SpecAlloc      the same calls with the history of the register calls  *)
(*   SpecLogs       appendLogs calls that overflow the log ring            *)
(*   SpecState      the registry with SaveState, daemon restart and probe  *)
(*   SpecEvents     concurrent HTTP handlers, broadcast and SSE clients    *)
(*   SpecBroadcast  broadcast / subscribe / unsubscribe / receive          *)
(*   SpecTemplate   Template calls of a supervisor against PostgreSQL      *)
(*   SpecOAuth      OAuth callbacks answered by the redistributor          *)
(*   SpecProxy      requests proxied to the guests, HTML injection         *)
(*   SpecRoute      targetForRequest on any Host header                    *)
(*   SpecRoundTrip  SaveState, restart and LoadState without interleaving  *)
(*   SpecSaves      the periodic and the shutdown save on the file system  *)
(*   SpecDispatch   the middleware choosing a handler for a request        *)
(*   SpecConfig     config.Load on the five sources of the environment     *)
(*   SpecHash       pg.Hash before and after an edit of the migrations     *)
(*   SpecRebase     restarts of the daemon with a changed port base        *)
(*   SpecSnapshot   SaveState marshalling while register calls run         *)
(*   SpecEnsure     Template and Create calls of concurrent supervisors    *)
(*   SpecFollow     a client following the redistributor's redirects       *)
(*   SpecRun        Run's initial start, WaitForHealthy and its reports    *)
(*   SpecDebounce   watcher callbacks and the rebuilds they start          *)
(*   SpecLocks      the daemon's threads on the registry and subscriber    *)
(*                  mutexes                                                *)
(*   SpecRecent     the watcher's recent list over seventeen files         *)
(***************************************************************************)
EXTENDS Integers, Sequences, FiniteSets, TLC

\* ------------------------------------------------------------------ bounds
MaxSwaps == 3
CheckRetries == 3
MaxAllocs == 3       \* port pairs handed out before register stops creating apps
MaxAllocsState == 2  \* port pairs handed out in SpecState
MaxRestarts == 1     \* daemon restarts in SpecState
MaxMutations == 3    \* mutating requests served in SpecEvents
MaxBroadcasts == 17  \* messages broadcast in SpecBroadcast
MaxLogEntries == 1   \* log entries posted in SpecReg
MaxTemplateCalls == 4 \* Template calls made in SpecTemplate
NumDirs == 2         \* migration directories handed to Template
MaxStateLen == 3     \* tokens in the state parameter of an OAuth callback
MaxBounces == 2      \* callbacks handled in SpecOAuth
MaxHostLabels == 2   \* dot-separated labels in a Host header
MaxBodyLen == 3      \* tokens in an upstream response body
MaxSaves == 3        \* SaveState calls begun in SpecSaves
MaxChunks == 2       \* length of a marshalled snapshot, in blocks
MaxLogTotal == 152   \* log entries posted in SpecLogs
MaxFiles == 2        \* files in a migration directory
MaxDataLen == 1      \* bytes in a migration file
MaxSetActives == 2   \* SetActive calls made in SpecReport
MaxReports == 3      \* reporter calls made in SpecReport
MaxTouches == 3      \* writes and deletions of watched files
MaxDiskChanges == 2  \* writes and deletions under the never-ending loop
MaxInstants == 2     \* registry states followed while one SaveState call runs
MaxHops == 3         \* redirects of the OAuth redistributor a client follows
MaxCallbacks == 3    \* watcher callbacks in SpecDebounce
MaxTime == 8         \* watcher ticks that pass in SpecDebounce
MaxBuildTicks == 1   \* ticks a failing build takes in SpecDebounce
MaxLockOps == 3      \* operations the daemon's threads begin in SpecLocks
MaxManyWrites == 2   \* files written in SpecRecent

\* --------------------------------------------------------------- constants
BluePort == 5000
DebounceTicks == 5        \* 500 ms in watcher ticks of 100 ms
CheckIntervalTicks == 5   \* CheckInterval, 500 ms, in watcher ticks
GreenPort == 5001
StatusOK == 200
StatusServiceUnavailable == 503
BluePortStart == 4000
PostgresPort == 54320
maxRecentLogs == 100
SubscriberQueueCap == 16
DashboardPort == 50000
StatusTemporaryRedirect == 307
StatusBadGateway == 502
ScriptLen == 91      \* bytes of the script tag for a one-letter space, 4-digit port
BodyTagLen == 7      \* bytes of the closing body tag
FingerprintLen == 12 \* hex characters of a migration fingerprint
maxRecentItemCount == 16
minItemCountPerIter == 64
maxIntervalsBeforeUpdate == 20
rescanInterval == 50

VARIABLES
    \* port.Manager and the supervisor that drives it
    active,     \* Manager.active
    pc,         \* per caller: position inside Swap
    inactive,   \* per caller: local `inactive` of Swap
    old,        \* per caller: local `old` of Swap
    tries,      \* per caller: loop counter i of WaitForHealthy
    rport,      \* per caller: local `port` of ReportHealth
    running,    \* ports with a guest started and not stopped (appRunner.cmds)
    reports,    \* per caller: <<status, port>> pairs given to Config.ReportHealth
    stopped,    \* per caller: ports given to stop, in call order
    result,     \* per caller: return value of the last Swap ("none" while running)
    pre,        \* per caller: Active() when Swap was called
    startOk,    \* per caller: start(inactive) returned nil in this call
    ok200,      \* per caller: port whose health check returned 200 in this call
    activeSet,  \* per caller: SetActive(inactive) has returned in this call
    swaps,      \* number of Swap calls begun
    \* api.Server: the registry
    apps,            \* Server.apps: space -> App
    lastRegistered,  \* Server.lastRegistered
    nextPort1,       \* Server.nextPort1
    ret,             \* return value of the last registry call
    surviving,       \* spaces registered and not deregistered since
    logClock,        \* number of log entries posted so far (their timestamps)
    \* the state file, SaveState and the daemon process
    disk,            \* content of state.json: NoFile or a serverState
    savePc,          \* position of the SaveState call in progress
    saveSnap,        \* the serverState scalars SaveState copied under the lock
    probePc,         \* position of the probeHealth goroutine
    probeApps,       \* probeHealth's local slice `apps` still to visit
    restarts,        \* number of daemon restarts
    sinceStart,      \* a register call returned since the daemon started
    \* event fan-out: handlers in flight, subscriber channels, SSE clients
    queues,          \* Server.subscribers: channel -> buffered messages
    overflowed,      \* per client: a message was dropped on its channel
    hpc,             \* per handler: position inside the request handler
    hmsg,            \* per handler: the event it is about to broadcast
    mutCount,        \* number of registry mutations applied / messages made
    sent,            \* tags of the events whose broadcast has returned
    cpc,             \* per client: position inside handleEventsStream
    csnap,           \* per client: the init snapshot and when it was taken
    crecv,           \* per client: events written to the response after init
    \* pkg/pg: the PostgreSQL server and the Template calls of the supervisors
    pgExists,        \* fingerprints f whose database t_<f> is in pg_database
    pgApplied,       \* per fingerprint: migration directories applied to t_<f>
    migratedOk,      \* fingerprints for which a whole migration run succeeded
    tpc,             \* per supervisor: position inside Template
    tfp,             \* per supervisor: argument `hash` of its Template call
    tdir,            \* per supervisor: index of the directory goose.Up runs next
    tret,            \* per supervisor: (name, err) of its last Template call
    tcalls,          \* number of Template calls begun
    \* the OAuth redistributor
    oauthStates,     \* state -> space recorded when an app starts an OAuth flow
    breq,            \* the last callback request given to handleOAuthBounce
    bresp,           \* its response
    bounces,         \* number of callbacks handled
    \* the reverse proxy
    phost,           \* Host header of the last proxied request
    ptarget,         \* what targetForRequest returned for it
    pup,             \* the upstream response
    presp,           \* the response sent to the client
    proxied,         \* a request has been routed or proxied
    \* the files of SaveState and its two callers
    fsTmp,           \* inode named state.json.tmp, 0 when the name is free
    fsPath,          \* inode named state.json, 0 when the name is free
    fsContent,       \* inode -> content, a sequence of blocks
    fsNext,          \* next inode number
    svPc,            \* per saver: position inside SaveState
    svData,          \* per saver: local `data` of SaveState
    svFd,            \* per saver: inode os.WriteFile has open
    svCalls,         \* number of SaveState calls begun
    \* history of the register calls in SpecAlloc
    created,         \* the spaces register created an App for, in call order
    areq,            \* the AppIn of the last register call
    \* the middleware in front of every request
    dreq,            \* the last request given to the middleware
    dhandler,        \* the handler the middleware passed it to
    \* history of the appendLogs calls in SpecLogs
    appended,        \* per space: the entries appended since it was created
    \* pkg/config: one Load call of a supervisor
    loadIn,          \* the files, the LoadIn and the process environment it reads
    loadOut,         \* the Out it returned
    \* pkg/pg: Hash calls on a migration directory that is edited in between
    hdir,            \* the directory: file name -> content
    hashPc,          \* "idle", or how far the two Hash calls have got
    hop,             \* what happened to the directory between the two calls
    hstream,         \* the bytes written to the digest by the first and second call
    hret,            \* the fingerprints the first and the second call returned
    \* history of the SetActive and ReportHealth calls in SpecReport
    activeHist,      \* the values Manager.active has had, one per change
    rstatus,         \* per caller: argument `status` of its ReportHealth call
    rver,            \* per caller: Len(activeHist) when it read Manager.active
    delivered,       \* the reporter's calls in order: status, port, version read
    \* pkg/watch: the polling watcher and the files it watches
    wdisk,             \* path -> modification time of the file, 0 when it is missing
    wclock,            \* number of writes and deletions made so far
    modTimes,          \* Watcher.modTimes
    recentItems,       \* Watcher.recentItems
    itemsToScan,       \* Watcher.itemsToScan
    itemsPerIteration, \* Watcher.itemsPerIteration
    rescanCounter,     \* local rescanCounter of the goroutine of Start
    dirtyPath,         \* what tryToFindDirtyPath returned in the last tick
    waiting,           \* per path: ticks it has been dirty and tracked, unreported
    reported,          \* per path: callbacks since the file last changed on disk
    \* the daemon started with another port base
    cfgBase,           \* Server.config.BluePortStart of the running daemon
    \* history of the registry while a SaveState call is in progress
    instants,          \* the registry states there have been since its RLock
    \* pkg/pg: Ensure calls of two supervisors
    clones,            \* per supervisor: what its Create call did
    \* a client following the redirects of the OAuth redistributor
    freq,              \* the request it has sent last
    fhandler,          \* the handler Middleware passed that request to
    fhops,             \* redirects followed so far
    \* the supervisor's Run up to its first health report
    rpc,               \* where Run is
    wn,                \* Config.CheckRetries of its port manager
    wi,                \* the loop variable i of WaitForHealthy
    wchecks,           \* the results CheckHealth has returned, in order
    wsleeps,           \* calls of time.Sleep(CheckInterval) made
    wret,              \* what WaitForHealthy returned
    rsent,             \* the (status, port) pairs given to ReportHealth
    \* watcher callbacks and the rebuilds they start, time in watcher ticks
    dlayer,            \* whose callback: the supervisor's or the dev proxy's
    dnow,              \* the time
    dcalls,            \* the times of the callbacks
    dstarts,           \* the times at which a Swap or restart was started
    dtimer,            \* when restartTimer fires, NoTimer if it is not armed
    dfree,             \* the earliest time of the watcher's next callback
    \* the daemon's threads and its two mutexes
    lprog,             \* per thread: the lock operations it has yet to do
    lheld,             \* per thread: what it holds of s.mu and s.subMu
    lops               \* operations begun so far

portVars == <<active, pc, inactive, old, tries, rport, running, reports,
              stopped, result, pre, startOk, ok200, activeSet, swaps>>

regVars == <<apps, lastRegistered, nextPort1, ret, surviving, logClock>>

stateVars == <<disk, savePc, saveSnap, probePc, probeApps, restarts, sinceStart>>

eventVars == <<queues, overflowed, hpc, hmsg, mutCount, sent, cpc, csnap, crecv>>

pgVars == <<pgExists, pgApplied, migratedOk, tpc, tfp, tdir, tret, tcalls>>

oauthVars == <<oauthStates, breq, bresp, bounces>>

proxyVars == <<phost, ptarget, pup, presp, proxied>>

fileVars == <<fsTmp, fsPath, fsContent, fsNext, svPc, svData, svFd, svCalls>>

allocVars == <<created, areq>>

dispatchVars == <<dreq, dhandler>>

\* the variables of the subsystems below the registry
baseVars == <<portVars, stateVars, eventVars, pgVars, oauthVars, proxyVars, fileVars,
              allocVars>>
logVars == <<appended>>
configVars == <<loadIn, loadOut>>
hashVars == <<hdir, hashPc, hop, hstream, hret>>
reportVars == <<activeHist, rstatus, rver, delivered>>
watchVars == <<wdisk, wclock, modTimes, recentItems, itemsToScan, itemsPerIteration,
               rescanCounter, dirtyPath, waiting, reported>>
rebaseVars == <<cfgBase>>
\* the variables of the subsystems that only their own specification moves
snapVars == <<instants>>
ensureVars == <<clones>>
followVars == <<freq, fhandler, fhops>>
runVars == <<rpc, wn, wi, wchecks, wsleeps, wret, rsent>>
debVars == <<dlayer, dnow, dcalls, dstarts, dtimer, dfree>>
lockVars == <<lprog, lheld, lops>>
tailVars == <<debVars, lockVars>>
lateVars == <<rebaseVars, snapVars, ensureVars, followVars, runVars, tailVars>>
moreVars == <<dispatchVars, logVars, configVars, hashVars, reportVars, watchVars,
              lateVars>>

vars == <<portVars, regVars, stateVars, eventVars, pgVars, oauthVars, proxyVars,
          fileVars, allocVars, moreVars>>

\* what the steps of one subsystem leave alone
notPort == <<regVars, stateVars, eventVars, pgVars, oauthVars, proxyVars, fileVars, allocVars, moreVars>>
notReg == <<portVars, stateVars, eventVars, pgVars, oauthVars, proxyVars, fileVars, allocVars, moreVars>>
notState == <<portVars, eventVars, pgVars, oauthVars, proxyVars, fileVars, allocVars, moreVars>>
notEvents == <<portVars, stateVars, pgVars, oauthVars, proxyVars, fileVars, allocVars, moreVars>>
notPg == <<portVars, regVars, stateVars, eventVars, oauthVars, proxyVars, fileVars, allocVars, moreVars>>
notOAuth == <<portVars, stateVars, eventVars, pgVars, proxyVars, fileVars, allocVars, moreVars>>
notProxy == <<portVars, stateVars, eventVars, pgVars, oauthVars, fileVars, allocVars, moreVars>>
notFiles == <<portVars, regVars, stateVars, eventVars, pgVars, oauthVars, proxyVars,
             allocVars, moreVars>>
notAlloc == <<portVars, stateVars, eventVars, pgVars, oauthVars, proxyVars, fileVars, moreVars>>
notPortReg == <<stateVars, eventVars, pgVars, oauthVars, proxyVars, fileVars, allocVars,
               moreVars>>
notDispatch == <<regVars, baseVars, logVars, configVars, hashVars, reportVars, watchVars,
    lateVars>>
notLogs == <<baseVars, dispatchVars, configVars, hashVars, reportVars, watchVars,
    lateVars>>
notConfig == <<regVars, baseVars, dispatchVars, logVars, hashVars, reportVars, watchVars,
    lateVars>>
notHash == <<regVars, baseVars, dispatchVars, logVars, configVars, reportVars, watchVars,
    lateVars>>
notReport == <<regVars, stateVars, eventVars, pgVars, oauthVars, proxyVars, fileVars,
              allocVars, dispatchVars, logVars, configVars, hashVars, watchVars,
              lateVars>>
notWatch == <<regVars, baseVars, dispatchVars, logVars, configVars, hashVars, reportVars,
    lateVars>>

Callers == {"rebuild", "envReload"}
NoPort == 0

\* Config.CheckHealth: (status, err) of one probe of /health
HealthResults == { [status |-> StatusOK, err |-> FALSE],
                   [status |-> StatusServiceUnavailable, err |-> FALSE],
                   [status |-> 0, err |-> TRUE] }

\* ------------------------------------------------------------ port.Manager

\* Manager.Inactive
Inactive == IF active = GreenPort THEN BluePort ELSE GreenPort

\* Manager.Active
Active == active

\* the test `err == nil && status == http.StatusOK` of WaitForHealthy
IsHealthy(r) == ~r.err /\ r.status = StatusOK

\* port.New(blue, green, cfg) followed by the supervisor's initial start(blue)
InitPort ==
    /\ active = BluePort
    /\ pc = [c \in Callers |-> "idle"]
    /\ inactive = [c \in Callers |-> NoPort]
    /\ old = [c \in Callers |-> NoPort]
    /\ tries = [c \in Callers |-> 0]
    /\ rport = [c \in Callers |-> NoPort]
    /\ running = {BluePort}
    /\ reports = [c \in Callers |-> <<>>]
    /\ stopped = [c \in Callers |-> <<>>]
    /\ result = [c \in Callers |-> "none"]
    /\ pre = [c \in Callers |-> NoPort]
    /\ startOk = [c \in Callers |-> FALSE]
    /\ ok200 = [c \in Callers |-> NoPort]
    /\ activeSet = [c \in Callers |-> FALSE]
    /\ swaps = 0

\* Swap, line 95: inactive := m.Inactive()
SwapInactive(c) ==
    /\ UNCHANGED notPort
    /\ pc[c] = "idle"
    /\ swaps < MaxSwaps
    /\ swaps' = swaps + 1
    /\ inactive' = [inactive EXCEPT ![c] = Inactive]
    /\ pc' = [pc EXCEPT ![c] = "old"]
    /\ pre' = [pre EXCEPT ![c] = Active]
    /\ reports' = [reports EXCEPT ![c] = <<>>]
    /\ stopped' = [stopped EXCEPT ![c] = <<>>]
    /\ result' = [result EXCEPT ![c] = "none"]
    /\ startOk' = [startOk EXCEPT ![c] = FALSE]
    /\ ok200' = [ok200 EXCEPT ![c] = NoPort]
    /\ activeSet' = [activeSet EXCEPT ![c] = FALSE]
    /\ tries' = [tries EXCEPT ![c] = 0]
    /\ rport' = [rport EXCEPT ![c] = NoPort]
    /\ old' = [old EXCEPT ![c] = NoPort]
    /\ UNCHANGED <<active, running>>

\* Swap, line 96: old := m.Active()
SwapOld(c) ==
    /\ UNCHANGED notPort
    /\ pc[c] = "old"
    /\ old' = [old EXCEPT ![c] = Active]
    /\ pc' = [pc EXCEPT ![c] = "start"]
    /\ UNCHANGED <<active, inactive, tries, rport, running, reports, stopped,
                   result, pre, startOk, ok200, activeSet, swaps>>

\* Swap, lines 98-100: start(inactive); an error returns false at once
SwapStart(c) ==
    /\ UNCHANGED notPort
    /\ pc[c] = "start"
    /\ \E err \in BOOLEAN :
         IF err
         THEN /\ pc' = [pc EXCEPT ![c] = "idle"]
              /\ result' = [result EXCEPT ![c] = "false"]
              /\ UNCHANGED <<running, startOk>>
         ELSE /\ running' = running \cup {inactive[c]}
              /\ startOk' = [startOk EXCEPT ![c] = TRUE]
              /\ pc' = [pc EXCEPT ![c] = "wait"]
              /\ UNCHANGED result
    /\ UNCHANGED <<active, inactive, old, tries, rport, reports, stopped,
                   pre, ok200, activeSet, swaps>>

\* WaitForHealthy, lines 77-83: one iteration of the retry loop
WaitCheck(c) ==
    /\ UNCHANGED notPort
    /\ pc[c] = "wait"
    /\ tries[c] < CheckRetries
    /\ \E r \in HealthResults :
         /\ tries' = [tries EXCEPT ![c] = tries[c] + 1]
         /\ IF IsHealthy(r)
            THEN /\ ok200' = [ok200 EXCEPT ![c] = inactive[c]]
                 /\ pc' = [pc EXCEPT ![c] = "setActive"]
            ELSE UNCHANGED <<ok200, pc>>
    /\ UNCHANGED <<active, inactive, old, rport, running, reports, stopped,
                   result, pre, startOk, activeSet, swaps>>

\* mutant: a failed health gate stops the serving port
SwapStopNew_StopsOld(c) ==
    /\ UNCHANGED notPort
    /\ pc[c] = "wait"
    /\ tries[c] = CheckRetries
    /\ running' = running \ {old[c]}
    /\ stopped' = [stopped EXCEPT ![c] = Append(stopped[c], old[c])]
    /\ result' = [result EXCEPT ![c] = "false"]
    /\ pc' = [pc EXCEPT ![c] = "idle"]
    /\ UNCHANGED <<active, inactive, old, tries, rport, reports, pre,
                   startOk, ok200, activeSet, swaps>>

\* WaitForHealthy, line 84 and Swap, lines 102-105: the loop ran out,
\* stop(inactive), return false
SwapStopNew(c) ==
    /\ UNCHANGED notPort
    /\ pc[c] = "wait"
    /\ tries[c] = CheckRetries
    /\ running' = running \ {inactive[c]}
    /\ stopped' = [stopped EXCEPT ![c] = Append(stopped[c], inactive[c])]
    /\ result' = [result EXCEPT ![c] = "false"]
    /\ pc' = [pc EXCEPT ![c] = "idle"]
    /\ UNCHANGED <<active, inactive, old, tries, rport, reports, pre,
                   startOk, ok200, activeSet, swaps>>

\* Manager.SetActive under the mutex
SetActive(p) == active' = p

\* mutant: the report is made before the active pointer moves
SwapSetActive_Late(c) ==
    /\ UNCHANGED notPort
    /\ pc[c] = "setActive"
    /\ pc' = [pc EXCEPT ![c] = "reportRead"]
    /\ UNCHANGED <<active, activeSet, inactive, old, tries, rport, running,
                   reports, stopped, result, pre, startOk, ok200, swaps>>

\* Swap, line 107: m.SetActive(inactive)
SwapSetActive(c) ==
    /\ UNCHANGED notPort
    /\ pc[c] = "setActive"
    /\ SetActive(inactive[c])
    /\ activeSet' = [activeSet EXCEPT ![c] = TRUE]
    /\ pc' = [pc EXCEPT ![c] = "reportRead"]
    /\ UNCHANGED <<inactive, old, tries, rport, running, reports, stopped,
                   result, pre, startOk, ok200, swaps>>

\* mutant: ReportHealth reports the port captured before the swap
ReportRead_Stale(c) ==
    /\ UNCHANGED notPort
    /\ pc[c] = "reportRead"
    /\ rport' = [rport EXCEPT ![c] = old[c]]
    /\ pc' = [pc EXCEPT ![c] = "reportCall"]
    /\ UNCHANGED <<active, inactive, old, tries, running, reports, stopped,
                   result, pre, startOk, ok200, activeSet, swaps>>

\* ReportHealth, lines 88-90: port := m.active under the mutex
ReportRead(c) ==
    /\ UNCHANGED notPort
    /\ pc[c] = "reportRead"
    /\ rport' = [rport EXCEPT ![c] = active]
    /\ pc' = [pc EXCEPT ![c] = "reportCall"]
    /\ UNCHANGED <<active, inactive, old, tries, running, reports, stopped,
                   result, pre, startOk, ok200, activeSet, swaps>>

\* ReportHealth, line 91: m.config.ReportHealth(status, port), mutex released
ReportCall(c) ==
    /\ UNCHANGED notPort
    /\ pc[c] = "reportCall"
    /\ reports' = [reports EXCEPT ![c] = Append(reports[c], <<"healthy", rport[c]>>)]
    /\ pc' = [pc EXCEPT ![c] = "stopOld"]
    /\ UNCHANGED <<active, inactive, old, tries, rport, running, stopped,
                   result, pre, startOk, ok200, activeSet, swaps>>

\* mutant: the successful swap stops the port it just started
SwapStopOld_StopsNew(c) ==
    /\ UNCHANGED notPort
    /\ pc[c] = "stopOld"
    /\ running' = running \ {inactive[c]}
    /\ stopped' = [stopped EXCEPT ![c] = Append(stopped[c], inactive[c])]
    /\ result' = [result EXCEPT ![c] = "true"]
    /\ pc' = [pc EXCEPT ![c] = "idle"]
    /\ UNCHANGED <<active, inactive, old, tries, rport, reports, pre,
                   startOk, ok200, activeSet, swaps>>

\* Swap, lines 109-110: stop(old), return true
SwapStopOld(c) ==
    /\ UNCHANGED notPort
    /\ pc[c] = "stopOld"
    /\ running' = running \ {old[c]}
    /\ stopped' = [stopped EXCEPT ![c] = Append(stopped[c], old[c])]
    /\ result' = [result EXCEPT ![c] = "true"]
    /\ pc' = [pc EXCEPT ![c] = "idle"]
    /\ UNCHANGED <<active, inactive, old, tries, rport, reports, pre,
                   startOk, ok200, activeSet, swaps>>

\* Manager.Swap, one step of caller c
Swap(c) ==
    \/ SwapInactive(c)
    \/ SwapOld(c)
    \/ SwapStart(c)
    \/ WaitCheck(c)
    \/ SwapStopNew(c)
    \/ SwapSetActive(c)
    \/ ReportRead(c)
    \/ ReportCall(c)
    \/ SwapStopOld(c)

\* -------------------------------------------------------------- api.Server

Spaces == {"a", "b"}

\* the mutable part of an AppIn request body
Bodies == { [dir |-> "/w/one", config |-> "cheetah", watch |-> "*.go"],
            [dir |-> "/w/two", config |-> ".envrc",  watch |-> "*.sql"] }

\* AppIn requests that pass the `space is required` test of handleAppPost
AppIn == { [space |-> sp, dir |-> b.dir, config |-> b.config, watch |-> b.watch] :
              sp \in Spaces, b \in Bodies }

\* status strings and port_active values a client may PUT
Statuses == {"healthy", "building"}
ClientPorts == {0, BluePortStart, BluePortStart + 3}

EmptyMap == [x \in {} |-> x]
Put(f, k, v) == [x \in DOMAIN f \cup {k} |-> IF x = k THEN v ELSE f[x]]
Remove(f, k) == [x \in DOMAIN f \ {k} |-> f[x]]

\* mutant: the new app starts on its green port
NewApp_ActiveGreen(req, p1) ==
    [space |-> req.space, dir |-> req.dir, config |-> req.config,
     watch |-> req.watch, databaseURL |-> <<PostgresPort, req.space>>,
     active |-> p1 + 1, blue |-> p1, green |-> p1 + 1,
     status |-> "unknown", logs |-> <<>>]

\* the App literal built by register for a new space
NewApp(req, p1) ==
    [space |-> req.space, dir |-> req.dir, config |-> req.config,
     watch |-> req.watch, databaseURL |-> <<PostgresPort, req.space>>,
     active |-> p1, blue |-> p1, green |-> p1 + 1,
     status |-> "unknown", logs |-> <<>>]

\* NewServer
InitReg ==
    /\ apps = EmptyMap
    /\ lastRegistered = ""
    /\ nextPort1 = BluePortStart
    /\ ret = "none"
    /\ surviving = {}
    /\ logClock = 0

\* mutant: register advances the port counter by one instead of two
register_AdvanceOne(req) ==
    IF req.space \in DOMAIN apps
    THEN /\ apps' = [apps EXCEPT ![req.space].config = req.config,
                                 ![req.space].dir = req.dir]
         /\ lastRegistered' = req.space
         /\ UNCHANGED nextPort1
    ELSE /\ apps' = Put(apps, req.space, NewApp(req, nextPort1))
         /\ nextPort1' = nextPort1 + 1
         /\ lastRegistered' = req.space

\* Server.register
register(req) ==
    IF req.space \in DOMAIN apps
    THEN /\ apps' = [apps EXCEPT ![req.space].config = req.config,
                                 ![req.space].dir = req.dir]
         /\ lastRegistered' = req.space
         /\ UNCHANGED nextPort1
    ELSE /\ apps' = Put(apps, req.space, NewApp(req, nextPort1))
         /\ nextPort1' = nextPort1 + 2
         /\ lastRegistered' = req.space

\* Server.get
get(space) == IF space \in DOMAIN apps THEN <<apps[space], TRUE>> ELSE <<EmptyMap, FALSE>>

\* Server.list: the apps of the map, in no particular order
list == { apps[sp] : sp \in DOMAIN apps }

\* mutant: deregister forgets to hand the last-registered role on
deregister_KeepLast(space) ==
    IF space \notin DOMAIN apps
    THEN UNCHANGED <<apps, lastRegistered>>
    ELSE /\ apps' = Remove(apps, space)
         /\ UNCHANGED lastRegistered

\* Server.deregister; ranging over a Go map visits the names in any order
deregister(space) ==
    IF space \notin DOMAIN apps
    THEN UNCHANGED <<apps, lastRegistered>>
    ELSE /\ apps' = Remove(apps, space)
         /\ IF lastRegistered = space
            THEN IF DOMAIN apps \ {space} = {}
                 THEN lastRegistered' = ""
                 ELSE \E name \in DOMAIN apps \ {space} : lastRegistered' = name
            ELSE UNCHANGED lastRegistered

\* Server.activeTarget: <<space, port, ok>>
activeTarget ==
    IF lastRegistered = "" THEN <<"", 0, FALSE>>
    ELSE IF lastRegistered \notin DOMAIN apps THEN <<"", 0, FALSE>>
    ELSE <<apps[lastRegistered].space, apps[lastRegistered].active, TRUE>>

\* mutant: the ring keeps the first maxRecentLogs entries
RingAppend_KeepFirst(logs, entries) ==
    LET all == logs \o entries
    IN IF Len(all) > maxRecentLogs
       THEN SubSeq(all, 1, maxRecentLogs)
       ELSE all

\* the ring of appendLogs: append, then keep the last maxRecentLogs entries
RingAppend(logs, entries) ==
    LET all == logs \o entries
    IN IF Len(all) > maxRecentLogs
       THEN SubSeq(all, Len(all) - maxRecentLogs + 1, Len(all))
       ELSE all

\* Server.appendLogs
appendLogs(space, entries) ==
    IF space \notin DOMAIN apps
    THEN UNCHANGED apps
    ELSE apps' = [apps EXCEPT ![space].logs = RingAppend(apps[space].logs, entries)]

\* Server.updateHealth
updateHealth(space, status, portActive) ==
    IF space \notin DOMAIN apps
    THEN UNCHANGED apps
    ELSE apps' = [apps EXCEPT ![space].status = status,
                              ![space].active = IF portActive > 0
                                                THEN portActive
                                                ELSE apps[space].active]

\* ---- the registry calls as steps of SpecReg

\* the bool that deregister, appendLogs and updateHealth return, and the
\* `existed` of register
Known(space) == space \in DOMAIN apps

\* a new space is created only while port pairs are left within the bound
CanRegister(req) ==
    Known(req.space) \/ nextPort1 < BluePortStart + 2 * MaxAllocs

Register(req) ==
    /\ CanRegister(req)
    /\ register(req)
    /\ ret' = IF Known(req.space) THEN "existed" ELSE "created"
    /\ surviving' = surviving \cup {req.space}
    /\ UNCHANGED <<logClock, notReg>>

Deregister(space) ==
    /\ deregister(space)
    /\ ret' = IF Known(space) THEN "true" ELSE "false"
    /\ surviving' = surviving \ {space}
    /\ UNCHANGED <<nextPort1, logClock, notReg>>

\* the entries of one POST /logs: n entries stamped logClock+1 .. logClock+n
AppendLogs(space, n) ==
    /\ logClock + n <= MaxLogEntries
    /\ appendLogs(space, [i \in 1..n |-> logClock + i])
    /\ ret' = IF Known(space) THEN "true" ELSE "false"
    /\ logClock' = logClock + n
    /\ UNCHANGED <<lastRegistered, nextPort1, surviving, notReg>>

UpdateHealth(space, status, portActive) ==
    /\ updateHealth(space, status, portActive)
    /\ ret' = IF Known(space) THEN "true" ELSE "false"
    /\ UNCHANGED <<lastRegistered, nextPort1, surviving, logClock, notReg>>

NextReg ==
    \/ \E req \in AppIn : Register(req)
    \/ \E sp \in Spaces : Deregister(sp)
    \/ \E sp \in Spaces, n \in 1..MaxLogEntries : AppendLogs(sp, n)
    \/ \E sp \in Spaces, st \in Statuses, p \in ClientPorts : UpdateHealth(sp, st, p)

\* ------------------------------------------- state file, restart and probe

\* os.ReadFile fails on a state file that was never written
NoFile == [exists |-> FALSE, apps |-> EmptyMap, lastRegistered |-> "", nextPort1 |-> 0]

\* the spaces of a map in every order a Go map range may visit them
Orders(S) ==
    { q \in UNION { [1..n -> S] : n \in {Cardinality(S)} } :
          \A i, j \in 1..Len(q) : i # j => q[i] # q[j] }

InitState ==
    /\ disk = NoFile
    /\ savePc = "idle"
    /\ saveSnap = [lastRegistered |-> "", nextPort1 |-> 0]
    /\ probePc = "off"
    /\ probeApps = <<>>
    /\ restarts = 0
    /\ sinceStart = FALSE

\* SaveState, lines 787-794: the serverState literal built under RLock; its
\* Apps field is the live map, not a copy
SaveSnapshot ==
    /\ UNCHANGED notState
    /\ savePc = "idle"
    /\ saveSnap' = [lastRegistered |-> lastRegistered, nextPort1 |-> nextPort1]
    /\ savePc' = "marshal"
    /\ UNCHANGED <<regVars, disk, probePc, probeApps, restarts, sinceStart>>

\* SaveState, lines 796-808: marshal (reading the live map), write the
\* temporary file and rename it over the state file
SaveWrite ==
    /\ UNCHANGED notState
    /\ savePc = "marshal"
    /\ disk' = [exists |-> TRUE,
                apps |-> apps,
                lastRegistered |-> saveSnap.lastRegistered,
                nextPort1 |-> saveSnap.nextPort1]
    /\ savePc' = "idle"
    /\ saveSnap' = [lastRegistered |-> "", nextPort1 |-> 0]
    /\ UNCHANGED <<regVars, probePc, probeApps, restarts, sinceStart>>

\* LoadState, lines 838-845: one visit of the loop over s.apps
RECURSIVE LoadApps(_, _, _, _)
LoadApps(m, order, next, base) ==
    IF order = <<>>
    THEN [apps |-> m, nextPort1 |-> next]
    ELSE LET sp == Head(order)
             app == [m[sp] EXCEPT !.status = "unknown"]
         IN IF app.blue < base
            THEN LoadApps([m EXCEPT ![sp] = [app EXCEPT !.blue = next,
                                                        !.green = next + 1]],
                          Tail(order), next + 2, base)
            ELSE LoadApps([m EXCEPT ![sp] = app], Tail(order), next, base)

\* mutant: LoadState keeps the port counter of NewServer
LoadState_ResetNext(file, order, base) ==
    IF ~file.exists
    THEN [apps |-> EmptyMap, nextPort1 |-> base, lastRegistered |-> ""]
    ELSE LET r == LoadApps(file.apps, order, base, base)
         IN [apps |-> r.apps, nextPort1 |-> base, lastRegistered |-> ""]

\* LoadState on a server fresh from NewServer: the registry it leaves behind
LoadState(file, order, base) ==
    IF ~file.exists
    THEN [apps |-> EmptyMap, nextPort1 |-> base, lastRegistered |-> ""]
    ELSE LET next == IF file.nextPort1 < base THEN base ELSE file.nextPort1
             r == LoadApps(file.apps, order, next, base)
         IN [apps |-> r.apps, nextPort1 |-> r.nextPort1, lastRegistered |-> ""]

\* main: the daemon process ends (its goroutines with it) and a new one
\* runs NewServer and LoadState(stateFile)
Restart ==
    /\ UNCHANGED notState
    /\ restarts < MaxRestarts
    /\ restarts' = restarts + 1
    /\ \E order \in Orders(DOMAIN disk.apps) :
         LET st == LoadState(disk, order, BluePortStart)
         IN /\ apps' = st.apps
            /\ nextPort1' = st.nextPort1
            /\ lastRegistered' = st.lastRegistered
    /\ surviving' = DOMAIN disk.apps
    /\ ret' = "none"
    /\ sinceStart' = FALSE
    /\ savePc' = "idle"
    /\ probePc' = IF disk.exists THEN "snapshot" ELSE "off"
    /\ probeApps' = <<>>
    /\ saveSnap' = [lastRegistered |-> "", nextPort1 |-> 0]
    /\ UNCHANGED <<logClock, disk>>

\* probeHealth, lines 855-860: copy the App pointers out of the map
ProbeSnapshot ==
    /\ UNCHANGED notState
    /\ probePc = "snapshot"
    /\ \E order \in Orders(DOMAIN apps) :
         probeApps' = [i \in 1..Len(order) |-> [space |-> order[i], inMap |-> TRUE]]
    /\ probePc' = "loop"
    /\ UNCHANGED <<regVars, disk, savePc, saveSnap, restarts, sinceStart>>

\* probeHealth, lines 862-879: probe one app; on 200 mark it healthy and
\* make it lastRegistered when there is none
ProbeApp ==
    /\ UNCHANGED notState
    /\ probePc = "loop"
    /\ probeApps # <<>>
    /\ LET app == Head(probeApps)
       IN \E r \in HealthResults :
            IF IsHealthy(r)
            THEN /\ apps' = IF app.inMap
                            THEN [apps EXCEPT ![app.space].status = "healthy"]
                            ELSE apps
                 /\ lastRegistered' = IF lastRegistered = ""
                                      THEN app.space
                                      ELSE lastRegistered
            ELSE UNCHANGED <<apps, lastRegistered>>
    /\ probeApps' = Tail(probeApps)
    /\ UNCHANGED <<nextPort1, ret, surviving, logClock, disk, savePc, saveSnap,
                   probePc, restarts, sinceStart>>

\* probeHealth returns after the last app
ProbeDone ==
    /\ UNCHANGED notState
    /\ probePc = "loop"
    /\ probeApps = <<>>
    /\ probePc' = "off"
    /\ UNCHANGED <<regVars, disk, savePc, saveSnap, probeApps, restarts, sinceStart>>

\* a deregistered App struct stays reachable through the pointers the probe
\* holds, but it is no longer the struct in the map
Detach(ptrs, space) ==
    [i \in 1..Len(ptrs) |-> IF ptrs[i].space = space
                            THEN [ptrs[i] EXCEPT !.inMap = FALSE]
                            ELSE ptrs[i]]

\* POST /api/apps served by the restarted daemon, within the bound of SpecState
StateRegister(req) ==
    /\ UNCHANGED notState
    /\ Known(req.space) \/ nextPort1 < BluePortStart + 2 * MaxAllocsState
    /\ register(req)
    /\ surviving' = surviving \cup {req.space}
    /\ sinceStart' = TRUE
    /\ UNCHANGED <<ret, logClock, disk, savePc, saveSnap, probePc, probeApps, restarts>>

\* DELETE /api/apps/:space while the probe may hold a pointer to the app
StateDeregister(space) ==
    /\ UNCHANGED notState
    /\ Known(space)
    /\ deregister(space)
    /\ surviving' = surviving \ {space}
    /\ probeApps' = Detach(probeApps, space)
    /\ UNCHANGED <<ret, nextPort1, logClock, disk, savePc, saveSnap, probePc,
                   restarts, sinceStart>>

\* requests of SpecState: one body
AppInState == { [space |-> sp, dir |-> "/w/one", config |-> "cheetah", watch |-> "*.go"] :
                   sp \in Spaces }

NextState ==
    \/ \E req \in AppInState : StateRegister(req)
    \/ \E sp \in Spaces : StateDeregister(sp)
    \/ SaveSnapshot
    \/ SaveWrite
    \/ Restart
    \/ ProbeSnapshot
    \/ ProbeApp
    \/ ProbeDone

\* PUT /api/apps/:space/health served by the daemon
StateUpdateHealth(space, status, portActive) ==
    /\ UNCHANGED notState
    /\ Known(space)
    /\ updateHealth(space, status, portActive)
    /\ UNCHANGED <<lastRegistered, nextPort1, ret, surviving, logClock, stateVars>>

\* SaveState with no registry call between its locked copy and its marshal,
\* as in the shutdown save of main
SaveState ==
    /\ UNCHANGED notState
    /\ savePc = "idle"
    /\ disk' = [exists |-> TRUE,
                apps |-> apps,
                lastRegistered |-> lastRegistered,
                nextPort1 |-> nextPort1]
    /\ UNCHANGED <<regVars, savePc, saveSnap, probePc, probeApps, restarts, sinceStart>>

NextRoundTrip ==
    \/ \E req \in AppInState : StateRegister(req)
    \/ \E sp \in Spaces : StateDeregister(sp)
    \/ \E sp \in Spaces, pa \in ClientPorts : StateUpdateHealth(sp, "healthy", pa)
    \/ SaveState
    \/ Restart

\* ---- the daemon restarted with another --blue-port-start / APP_PORT

\* the bases a daemon is started with
Bases == {BluePortStart, BluePortStart + 2}

\* NewServer(cfg): the configured base of the first daemon
InitRebase == cfgBase = BluePortStart

\* main: the daemon ends and a new one runs NewServer with base `base` and
\* LoadState(stateFile)
RestartWithBase(base) ==
    /\ UNCHANGED <<portVars, eventVars, pgVars, oauthVars, proxyVars, fileVars,
                   allocVars, dispatchVars, logVars, configVars, hashVars,
                   reportVars, watchVars, snapVars, ensureVars, followVars,
                   runVars, tailVars>>
    /\ restarts < MaxRestarts
    /\ restarts' = restarts + 1
    /\ cfgBase' = base
    /\ \E order \in Orders(DOMAIN disk.apps) :
         LET st == LoadState(disk, order, base)
         IN /\ apps' = st.apps
            /\ nextPort1' = st.nextPort1
            /\ lastRegistered' = st.lastRegistered
    /\ surviving' = DOMAIN disk.apps
    /\ ret' = "none"
    /\ sinceStart' = FALSE
    /\ savePc' = "idle"
    /\ probePc' = IF disk.exists THEN "snapshot" ELSE "off"
    /\ probeApps' = <<>>
    /\ saveSnap' = [lastRegistered |-> "", nextPort1 |-> 0]
    /\ UNCHANGED <<logClock, disk>>

NextRebase ==
    \/ \E req \in AppInState : StateRegister(req)
    \/ \E sp \in Spaces : StateDeregister(sp)
    \/ \E sp \in Spaces, pa \in ClientPorts : StateUpdateHealth(sp, "healthy", pa)
    \/ SaveState
    \/ \E base \in Bases : RestartWithBase(base)

\* ---- SaveState while the registry is being changed

\* what SaveState is to write: apps, last_registered and next_port1
Registry(a, l, n) == [apps |-> a, lastRegistered |-> l, nextPort1 |-> n]

InitSnap == instants = {}

notSnap == <<portVars, eventVars, pgVars, oauthVars, proxyVars, fileVars, allocVars,
            dispatchVars, logVars, configVars, hashVars, reportVars, watchVars,
            rebaseVars, ensureVars, followVars, runVars, tailVars>>

\* the registry state a call leaves joins the history of the save in
\* progress, which follows at most MaxInstants states
Seen(a, l, n) ==
    /\ Cardinality(instants) <= MaxInstants
    /\ instants' = IF savePc = "marshal" THEN instants \cup {Registry(a, l, n)}
                   ELSE instants

\* SaveState, lines 787-794: the serverState literal built under RLock
SnapBegin ==
    /\ UNCHANGED notSnap
    /\ savePc = "idle"
    /\ saveSnap' = [lastRegistered |-> lastRegistered, nextPort1 |-> nextPort1]
    /\ savePc' = "marshal"
    /\ instants' = {Registry(apps, lastRegistered, nextPort1)}
    /\ UNCHANGED <<regVars, disk, probePc, probeApps, restarts, sinceStart>>

\* SaveState, lines 796-808: json.MarshalIndent walks the live maps, then the
\* file is written and renamed
SnapWrite ==
    /\ UNCHANGED notSnap
    /\ savePc = "marshal"
    /\ disk' = [exists |-> TRUE,
                apps |-> apps,
                lastRegistered |-> saveSnap.lastRegistered,
                nextPort1 |-> saveSnap.nextPort1]
    /\ savePc' = "idle"
    /\ saveSnap' = [lastRegistered |-> "", nextPort1 |-> 0]
    /\ instants' = {}
    /\ UNCHANGED <<regVars, probePc, probeApps, restarts, sinceStart>>

\* POST /api/apps while a save may be in progress
SnapRegister(req) ==
    /\ UNCHANGED notSnap
    /\ Known(req.space) \/ nextPort1 < BluePortStart + 2 * MaxAllocsState
    /\ register(req)
    /\ Seen(apps', lastRegistered', nextPort1')
    /\ surviving' = surviving \cup {req.space}
    /\ UNCHANGED <<ret, logClock, stateVars>>

\* PUT /api/apps/:space/health while a save may be in progress
SnapUpdateHealth(space, status, portActive) ==
    /\ UNCHANGED notSnap
    /\ Known(space)
    /\ updateHealth(space, status, portActive)
    /\ Seen(apps', lastRegistered, nextPort1)
    /\ UNCHANGED <<lastRegistered, nextPort1, ret, surviving, logClock, stateVars>>

\* POST /api/logs while a save may be in progress
SnapAppendLogs(space, n) ==
    /\ UNCHANGED notSnap
    /\ Known(space)
    /\ logClock + n <= MaxLogEntries
    /\ appendLogs(space, [i \in 1..n |-> logClock + i])
    /\ logClock' = logClock + n
    /\ Seen(apps', lastRegistered, nextPort1)
    /\ UNCHANGED <<lastRegistered, nextPort1, ret, surviving, stateVars>>

NextSnapshot ==
    \/ SnapBegin
    \/ SnapWrite
    \/ \E req \in AppInState : SnapRegister(req)
    \/ \E sp \in Spaces : SnapUpdateHealth(sp, "healthy", 0)
    \/ \E sp \in Spaces, n \in 1..MaxLogEntries : SnapAppendLogs(sp, n)

\* ------------------------------------------- broadcast and the event stream

Clients == {"c1", "c2"}
Handlers == {"h1", "h2"}

NoMsg == [event |-> "", space |-> "", tag |-> 0]
NoSnap == [spaces |-> {}, at |-> 0]

InitEvents ==
    /\ queues = EmptyMap
    /\ overflowed = [c \in Clients |-> FALSE]
    /\ hpc = [h \in Handlers |-> "idle"]
    /\ hmsg = [h \in Handlers |-> NoMsg]
    /\ mutCount = 0
    /\ sent = {}
    /\ cpc = [c \in Clients |-> "idle"]
    /\ csnap = [c \in Clients |-> NoSnap]
    /\ crecv = [c \in Clients |-> <<>>]

\* mutant: the send blocks until there is room, i.e. always lands in the queue
Send_Always(qs, msg) ==
    [ch \in DOMAIN qs |-> Append(qs[ch], msg)]

\* broadcast, lines 129-136: under subMu, for every subscriber channel
\* `select { case ch <- msg: default: }`
Send(qs, msg) ==
    [ch \in DOMAIN qs |-> IF Len(qs[ch]) < SubscriberQueueCap
                          THEN Append(qs[ch], msg)
                          ELSE qs[ch]]

\* the channels on which the select of broadcast takes the default branch
Full(qs) == { ch \in DOMAIN qs : Len(qs[ch]) >= SubscriberQueueCap }

\* Server.broadcast of one message
broadcast(msg) ==
    /\ queues' = Send(queues, msg)
    /\ overflowed' = [c \in Clients |-> overflowed[c] \/ c \in Full(queues)]
    /\ sent' = sent \cup {msg.tag}

\* Server.subscribe: a fresh channel of capacity 16 joins the set
subscribe(ch) ==
    /\ queues' = Put(queues, ch, <<>>)
    /\ overflowed' = [overflowed EXCEPT ![ch] = FALSE]

\* Server.unsubscribe: the channel leaves the set and is closed
unsubscribe(ch) == queues' = Remove(queues, ch)

\* ---- HTTP handlers of SpecEvents, one step per lock region

\* handleAppPost, line 318: s.register(req)
AppPostRegister(h, req) ==
    /\ UNCHANGED notEvents
    /\ hpc[h] = "idle"
    /\ mutCount < MaxMutations
    /\ register(req)
    /\ mutCount' = mutCount + 1
    /\ hmsg' = [hmsg EXCEPT ![h] = [event |-> "app", space |-> req.space,
                                    tag |-> mutCount + 1]]
    /\ hpc' = [hpc EXCEPT ![h] = "broadcast"]
    /\ surviving' = surviving \cup {req.space}
    /\ UNCHANGED <<ret, logClock, queues, overflowed, sent, cpc, csnap, crecv>>

\* handleAppDelete, line 347: s.deregister(space); 404 ends the request
AppDeleteDeregister(h, space) ==
    /\ UNCHANGED notEvents
    /\ hpc[h] = "idle"
    /\ mutCount < MaxMutations
    /\ Known(space)
    /\ deregister(space)
    /\ mutCount' = mutCount + 1
    /\ hmsg' = [hmsg EXCEPT ![h] = [event |-> "deregister", space |-> space,
                                    tag |-> mutCount + 1]]
    /\ hpc' = [hpc EXCEPT ![h] = "broadcast"]
    /\ surviving' = surviving \ {space}
    /\ UNCHANGED <<nextPort1, ret, logClock, queues, overflowed, sent, cpc,
                   csnap, crecv>>

\* handleHealthPut, line 376: s.updateHealth(...); 404 ends the request
HealthPutUpdate(h, space, status, portActive) ==
    /\ UNCHANGED notEvents
    /\ hpc[h] = "idle"
    /\ mutCount < MaxMutations
    /\ Known(space)
    /\ updateHealth(space, status, portActive)
    /\ mutCount' = mutCount + 1
    /\ hmsg' = [hmsg EXCEPT ![h] = [event |-> "app", space |-> space,
                                    tag |-> mutCount + 1]]
    /\ hpc' = [hpc EXCEPT ![h] = "get"]
    /\ UNCHANGED <<lastRegistered, nextPort1, ret, surviving, logClock, queues,
                   overflowed, sent, cpc, csnap, crecv>>

\* handleHealthPut, line 380: s.get(space); no broadcast when the app is gone
HealthPutGet(h) ==
    /\ UNCHANGED notEvents
    /\ hpc[h] = "get"
    /\ IF get(hmsg[h].space)[2]
       THEN /\ hpc' = [hpc EXCEPT ![h] = "broadcast"]
            /\ UNCHANGED hmsg
       ELSE /\ hpc' = [hpc EXCEPT ![h] = "idle"]
            /\ hmsg' = [hmsg EXCEPT ![h] = NoMsg]
    /\ UNCHANGED <<regVars, queues, overflowed, mutCount, sent, cpc, csnap, crecv>>

\* handleAppPost line 321, handleAppDelete line 351, handleHealthPut line 381:
\* s.broadcast(event, payload), then the response
HandlerBroadcast(h) ==
    /\ UNCHANGED notEvents
    /\ hpc[h] = "broadcast"
    /\ broadcast(hmsg[h])
    /\ hpc' = [hpc EXCEPT ![h] = "idle"]
    /\ hmsg' = [hmsg EXCEPT ![h] = NoMsg]
    /\ UNCHANGED <<regVars, mutCount, cpc, csnap, crecv>>

\* handleEventsStream, lines 395-398: apps := s.list(), write the init event
EventsInit(c) ==
    /\ UNCHANGED notEvents
    /\ cpc[c] = "idle"
    /\ csnap' = [csnap EXCEPT ![c] = [spaces |-> { app.space : app \in list },
                                      at |-> mutCount]]
    /\ cpc' = [cpc EXCEPT ![c] = "init"]
    /\ UNCHANGED <<regVars, queues, overflowed, hpc, hmsg, mutCount, sent, crecv>>

\* handleEventsStream, line 400: ch := s.subscribe()
EventsSubscribe(c) ==
    /\ UNCHANGED notEvents
    /\ cpc[c] = "init"
    /\ subscribe(c)
    /\ cpc' = [cpc EXCEPT ![c] = "stream"]
    /\ UNCHANGED <<regVars, hpc, hmsg, mutCount, sent, csnap, crecv>>

\* handleEventsStream, lines 408-413: a message arrives on ch and is written
EventsForward(c) ==
    /\ UNCHANGED notEvents
    /\ cpc[c] = "stream"
    /\ queues[c] # <<>>
    /\ crecv' = [crecv EXCEPT ![c] = Append(crecv[c], Head(queues[c]))]
    /\ queues' = [queues EXCEPT ![c] = Tail(queues[c])]
    /\ UNCHANGED <<regVars, overflowed, hpc, hmsg, mutCount, sent, cpc, csnap>>

\* handleEventsStream, lines 401-407: the request context is cancelled, the
\* deferred unsubscribe runs
EventsClose(c) ==
    /\ UNCHANGED notEvents
    /\ cpc[c] = "stream"
    /\ unsubscribe(c)
    /\ cpc' = [cpc EXCEPT ![c] = "closed"]
    /\ UNCHANGED <<regVars, overflowed, hpc, hmsg, mutCount, sent, csnap, crecv>>

\* the clients that open /api/events in SpecEvents
StreamClients == {"c1"}

NextEvents ==
    \/ \E h \in Handlers, req \in AppInState : AppPostRegister(h, req)
    \/ \E h \in Handlers, sp \in Spaces : AppDeleteDeregister(h, sp)
    \/ \E h \in Handlers, sp \in Spaces : HealthPutUpdate(h, sp, "healthy", 0)
    \/ \E h \in Handlers : HealthPutGet(h)
    \/ \E h \in Handlers : HandlerBroadcast(h)
    \/ \E c \in StreamClients : EventsInit(c)
    \/ \E c \in StreamClients : EventsSubscribe(c)
    \/ \E c \in StreamClients : EventsForward(c)
    \/ \E c \in StreamClients : EventsClose(c)

\* ---- SpecBroadcast: any number of handlers broadcasting, clients that
\* subscribe, read at their own pace and leave

Broadcast ==
    /\ UNCHANGED notEvents
    /\ mutCount < MaxBroadcasts
    /\ mutCount' = mutCount + 1
    /\ broadcast([event |-> "app", space |-> "a", tag |-> mutCount + 1])
    /\ UNCHANGED <<regVars, hpc, hmsg, cpc, csnap, crecv>>

Subscribe(c) ==
    /\ UNCHANGED notEvents
    /\ c \notin DOMAIN queues
    /\ subscribe(c)
    /\ UNCHANGED <<regVars, hpc, hmsg, mutCount, sent, cpc, csnap, crecv>>

Unsubscribe(c) ==
    /\ UNCHANGED notEvents
    /\ c \in DOMAIN queues
    /\ unsubscribe(c)
    /\ UNCHANGED <<regVars, overflowed, hpc, hmsg, mutCount, sent, cpc, csnap, crecv>>

\* the receive `msg, ok := <-ch` of a subscriber
Receive(c) ==
    /\ UNCHANGED notEvents
    /\ c \in DOMAIN queues
    /\ queues[c] # <<>>
    /\ queues' = [queues EXCEPT ![c] = Tail(queues[c])]
    /\ UNCHANGED <<regVars, overflowed, hpc, hmsg, mutCount, sent, cpc, csnap, crecv>>

NextBroadcast ==
    \/ Broadcast
    \/ \E c \in Clients : Subscribe(c)
    \/ \E c \in Clients : Unsubscribe(c)
    \/ \E c \in Clients : Receive(c)

\* ------------------------------------------- pkg/pg: the template database

Fingerprints == {"f1", "f2"}
Supervisors == {"s1", "s2"}
NoRet == [name |-> <<>>, err |-> ""]

\* const prefix = "t_"; name := prefix + hash
TemplateName(f) == <<"t_", f>>

InitPg ==
    /\ pgExists = {}
    /\ pgApplied = [f \in Fingerprints |-> 0]
    /\ migratedOk = {}
    /\ tpc = [s \in Supervisors |-> "idle"]
    /\ tfp = [s \in Supervisors |-> "f1"]
    /\ tdir = [s \in Supervisors |-> 0]
    /\ tret = [s \in Supervisors |-> NoRet]
    /\ tcalls = 0

\* Template returns (name, err): the call of supervisor s is over
TemplateReturn(s, name, err) ==
    /\ tpc' = [tpc EXCEPT ![s] = "idle"]
    /\ tret' = [tret EXCEPT ![s] = [name |-> name, err |-> err]]

\* a supervisor calls Template(adminURL, dirs, hash)
TemplateCall(s, f) ==
    /\ UNCHANGED notPg
    /\ tpc[s] = "idle"
    /\ tcalls < MaxTemplateCalls
    /\ tcalls' = tcalls + 1
    /\ tfp' = [tfp EXCEPT ![s] = f]
    /\ tpc' = [tpc EXCEPT ![s] = "check"]
    /\ tret' = [tret EXCEPT ![s] = NoRet]
    /\ UNCHANGED <<pgExists, pgApplied, migratedOk, tdir>>

\* Template, lines 293-300: SELECT EXISTS(... pg_database WHERE datname = name);
\* an existing database is returned as it is
TemplateCheck(s) ==
    /\ UNCHANGED notPg
    /\ tpc[s] = "check"
    /\ IF tfp[s] \in pgExists
       THEN TemplateReturn(s, TemplateName(tfp[s]), "")
       ELSE /\ tpc' = [tpc EXCEPT ![s] = "create"]
            /\ UNCHANGED tret
    /\ UNCHANGED <<pgExists, pgApplied, migratedOk, tfp, tdir, tcalls>>

\* Template, lines 302-305: CREATE DATABASE name; PostgreSQL refuses a name
\* that exists by now
TemplateCreate(s) ==
    /\ UNCHANGED notPg
    /\ tpc[s] = "create"
    /\ IF tfp[s] \in pgExists
       THEN /\ TemplateReturn(s, <<>>, "create template db")
            /\ UNCHANGED <<pgExists, pgApplied, tdir>>
       ELSE /\ pgExists' = pgExists \cup {tfp[s]}
            /\ pgApplied' = [pgApplied EXCEPT ![tfp[s]] = 0]
            /\ tpc' = [tpc EXCEPT ![s] = "migrate"]
            /\ tdir' = [tdir EXCEPT ![s] = 1]
            /\ UNCHANGED tret
    /\ UNCHANGED <<migratedOk, tfp, tcalls>>

\* Template, lines 318-332: one turn of `for _, dir := range dirs` with
\* goose.Up(tmplDB, dir) returning nil (ok) or an error; an error returns at
\* once and leaves the database as it is; after the last directory the name
\* is returned
TemplateMigrate(s, ok) ==
    /\ UNCHANGED notPg
    /\ tpc[s] = "migrate"
    /\ IF ~ok
       THEN /\ TemplateReturn(s, <<>>, "run migrations")
            /\ UNCHANGED <<pgExists, pgApplied, migratedOk, tdir>>
       ELSE /\ pgApplied' = [pgApplied EXCEPT ![tfp[s]] = tdir[s]]
            /\ UNCHANGED pgExists
            /\ IF tdir[s] = NumDirs
               THEN /\ TemplateReturn(s, TemplateName(tfp[s]), "")
                    /\ migratedOk' = migratedOk \cup {tfp[s]}
                    /\ UNCHANGED tdir
               ELSE /\ tdir' = [tdir EXCEPT ![s] = tdir[s] + 1]
                    /\ UNCHANGED <<tpc, tret, migratedOk>>
    /\ UNCHANGED <<tfp, tcalls>>

\* the supervisor whose Template calls SpecTemplate follows
TemplateCallers == {"s1"}

NextTemplate ==
    \/ \E s \in TemplateCallers, f \in Fingerprints : TemplateCall(s, f)
    \/ \E s \in TemplateCallers : TemplateCheck(s)
    \/ \E s \in TemplateCallers : TemplateCreate(s)
    \/ \E s \in TemplateCallers, ok \in BOOLEAN : TemplateMigrate(s, ok)

\* ---- Ensure: Template, then Create, called by two supervisors

NoClone == [done |-> FALSE, err |-> "", applied |-> 0]

InitEnsure == clones = [s \in Supervisors |-> NoClone]

\* Ensure, lines 225-228: the supervisor's one call of Template
EnsureTemplate(s, f) ==
    /\ tret[s] = NoRet
    /\ ~clones[s].done
    /\ TemplateCall(s, f)

\* the migration directories Template has applied so far when a session of
\* a migrating Template call is connected to database t_f: goose.Up opens
\* the first connection of tmplDB, the deferred Close ends the last one
Connected(f) ==
    \E s \in Supervisors : tpc[s] = "migrate" /\ tfp[s] = f /\ tdir[s] > 1

\* Ensure, lines 230-237, and Create: DROP DATABASE IF EXISTS target, CREATE
\* DATABASE target TEMPLATE t_f; PostgreSQL copies the template as it is at
\* that moment and refuses while another session is connected to it
Create(s) ==
    /\ UNCHANGED <<portVars, regVars, stateVars, eventVars, pgVars, oauthVars,
                   proxyVars, fileVars, allocVars, dispatchVars, logVars,
                   configVars, hashVars, reportVars, watchVars, rebaseVars,
                   snapVars, followVars, runVars, tailVars>>
    /\ tpc[s] = "idle"
    /\ tret[s].name # <<>>
    /\ ~clones[s].done
    /\ clones' = [clones EXCEPT ![s] =
          IF Connected(tfp[s])
          THEN [done |-> TRUE, err |-> "clone db", applied |-> 0]
          ELSE [done |-> TRUE, err |-> "", applied |-> pgApplied[tfp[s]]]]

NextEnsure ==
    \/ \E s \in Supervisors, f \in Fingerprints : EnsureTemplate(s, f)
    \/ \E s \in Supervisors : TemplateCheck(s)
    \/ \E s \in Supervisors : TemplateCreate(s)
    \/ \E s \in Supervisors : TemplateMigrate(s, TRUE)
    \/ \E s \in Supervisors : Create(s)

\* ------------------------------------------------- the OAuth redistributor

\* A query value is a sequence of tokens; "a" and "b" are the space names,
\* "|" is the pipe and "n" a nonce.
StateTokens == {"a", "|", "n"}

RECURSIVE SeqsUpTo(_, _)
SeqsUpTo(S, n) ==
    IF n = 0 THEN {<<>>}
    ELSE LET shorter == SeqsUpTo(S, n - 1)
         IN shorter \cup { Append(q, x) : q \in shorter, x \in S }

\* values of the state parameter; <<>> is a missing or empty parameter
StateParams == SeqsUpTo(StateTokens, MaxStateLen)

\* the requests Middleware hands to handleOAuthBounce: no subdomain and the
\* path /auth/callback
BounceRequests ==
    { [sub |-> <<>>, path |-> "/auth/callback", code |-> "abc", state |-> st] :
         st \in StateParams }

NoRequest == [sub |-> <<>>, path |-> "", code |-> "", state |-> <<>>]
NoResponse == [status |-> 0, sub |-> <<>>, port |-> 0, path |-> "",
               code |-> "", state |-> <<>>]

\* strings.Cut(s, "|"): <<before, after, found>> around the first pipe
Cut(st) ==
    LET pipes == { i \in 1..Len(st) : st[i] = "|" }
    IN IF pipes = {} THEN <<st, <<>>, FALSE>>
       ELSE LET i == CHOOSE k \in pipes : \A j \in pipes : k <= j
            IN <<SubSeq(st, 1, i - 1), SubSeq(st, i + 1, Len(st)), TRUE>>

\* Server.handleOAuthBounce: the 307 response; every parameter but state is
\* copied, the path of the target is the literal /auth/callback
handleOAuthBounce(req) ==
    LET cut == Cut(req.state)
    IN IF cut[3] /\ cut[1] # <<>>
       THEN [status |-> StatusTemporaryRedirect, sub |-> cut[1],
             port |-> DashboardPort, path |-> "/auth/callback",
             code |-> req.code, state |-> cut[2]]
       ELSE [status |-> StatusTemporaryRedirect, sub |-> <<>>,
             port |-> DashboardPort, path |-> "/auth/callback",
             code |-> req.code, state |-> req.state]

InitOAuth ==
    /\ oauthStates = EmptyMap
    /\ breq = NoRequest
    /\ bresp = NoResponse
    /\ bounces = 0

\* the states an app hands to the provider when it starts a flow
StoredStates == { <<"n">>, <<"a", "|", "n">> }

\* srv.oauthStates.Store(state, space): an app starts an OAuth flow
OAuthStore(st, space) ==
    /\ UNCHANGED notOAuth
    /\ st \notin DOMAIN oauthStates
    /\ oauthStates' = Put(oauthStates, st, space)
    /\ UNCHANGED <<regVars, breq, bresp, bounces>>

\* a callback arrives at the dashboard host and is answered
OAuthBounce(req) ==
    /\ UNCHANGED notOAuth
    /\ bounces < MaxBounces
    /\ bounces' = bounces + 1
    /\ breq' = req
    /\ bresp' = handleOAuthBounce(req)
    /\ UNCHANGED <<regVars, oauthStates>>

\* POST /api/apps between callbacks
OAuthRegister(req) ==
    /\ UNCHANGED notOAuth
    /\ Known(req.space) \/ nextPort1 < BluePortStart + 2 * MaxAllocsState
    /\ register(req)
    /\ surviving' = surviving \cup {req.space}
    /\ UNCHANGED <<ret, logClock, oauthVars>>

\* DELETE /api/apps/:space between callbacks
OAuthDeregister(space) ==
    /\ UNCHANGED notOAuth
    /\ Known(space)
    /\ deregister(space)
    /\ surviving' = surviving \ {space}
    /\ UNCHANGED <<ret, nextPort1, logClock, oauthVars>>

NextOAuth ==
    \/ \E req \in AppInState : OAuthRegister(req)
    \/ \E sp \in Spaces : OAuthDeregister(sp)
    \/ \E st \in StoredStates, sp \in Spaces : OAuthStore(st, sp)
    \/ \E req \in BounceRequests : OAuthBounce(req)

\* -------------------------------------------------------- the reverse proxy

\* A Host header is a sequence of dot-separated labels and maybe a port; app
\* names in these specifications include the two dashboard names.
RouteSpaces == {"a", "cheetah", "spacecat"}
Labels == RouteSpaces \cup {"localhost"}
Hosts == { [labels |-> ls, port |-> pt] :
              ls \in SeqsUpTo(Labels, MaxHostLabels), pt \in {0, DashboardPort} }

\* extractSubdomain: the text before ':' is split at '.'; the first part is
\* the subdomain when there are two or more parts and the last is "localhost"
extractSubdomain(host) ==
    LET parts == host.labels
    IN IF Len(parts) >= 2 /\ parts[Len(parts)] = "localhost"
       THEN parts[1]
       ELSE ""

\* mutant: the dashboard name is routed like any other subdomain
targetForRequest_NoDashboard(host) ==
    LET sub == extractSubdomain(host)
    IN IF sub # "" /\ sub \in DOMAIN apps
       THEN <<apps[sub].space, apps[sub].active, TRUE>>
       ELSE activeTarget

\* Server.targetForRequest: <<space, port, ok>>
targetForRequest(host) ==
    LET sub == extractSubdomain(host)
    IN IF sub # "" /\ sub # "cheetah" /\ sub \in DOMAIN apps
       THEN <<apps[sub].space, apps[sub].active, TRUE>>
       ELSE activeTarget

NoHost == [labels |-> <<>>, port |-> 0]
NoTarget == <<"", 0, FALSE>>
NoUpstream == [ct |-> <<>>, body |-> <<>>, contentLength |-> 0]
NoProxyResponse == [status |-> 0, ct |-> <<>>, body |-> <<>>, contentLength |-> 0,
                    space |-> "", port |-> 0]

InitProxy ==
    /\ phost = NoHost
    /\ ptarget = NoTarget
    /\ pup = NoUpstream
    /\ presp = NoProxyResponse
    /\ proxied = FALSE

\* Content-Type values and bodies of upstream responses, as token sequences
ContentTypes == { <<"text/html">>, <<"text/html", "; charset=utf-8">>,
                  <<"application/json">> }
BodyTokens == {"</body>", "x"}

\* strings.Contains(ct, "text/html")
Contains(q, tok) == \E i \in 1..Len(q) : q[i] = tok

TokenLen(tok) ==
    CASE tok = "</body>" -> BodyTagLen
      [] tok = "<script>" -> ScriptLen
      [] OTHER -> 1

\* len(body) in bytes
RECURSIVE ByteLen(_)
ByteLen(q) == IF q = <<>> THEN 0 ELSE TokenLen(Head(q)) + ByteLen(Tail(q))

Upstreams == { [ct |-> ct, body |-> b, contentLength |-> ByteLen(b)] :
                  ct \in ContentTypes, b \in SeqsUpTo(BodyTokens, MaxBodyLen) }

\* mutant: strings.Replace with n = -1, every occurrence is replaced
ReplaceFirst_All(q, tag, new) ==
    LET RECURSIVE all(_)
        all(r) == IF r = <<>> THEN <<>>
                  ELSE IF Head(r) = tag THEN new \o all(Tail(r))
                  ELSE <<Head(r)>> \o all(Tail(r))
    IN all(q)

\* strings.Replace(q, old, new, 1): the first occurrence of tag, if any
ReplaceFirst(q, tag, new) ==
    LET hits == { i \in 1..Len(q) : q[i] = tag }
    IN IF hits = {} THEN q
       ELSE LET i == CHOOSE k \in hits : \A j \in hits : k <= j
            IN SubSeq(q, 1, i - 1) \o new \o SubSeq(q, i + 1, Len(q))

\* ModifyResponse of handleProxy, lines 594-613
ModifyResponse(up, space, port) ==
    IF ~Contains(up.ct, "text/html")
    THEN [status |-> StatusOK, ct |-> up.ct, body |-> up.body,
          contentLength |-> up.contentLength, space |-> space, port |-> port]
    ELSE LET injected == ReplaceFirst(up.body, "</body>",
                                      <<"<script>", "\n", "</body>">>)
         IN [status |-> StatusOK, ct |-> up.ct, body |-> injected,
             contentLength |-> ByteLen(injected), space |-> space, port |-> port]

\* Server.handleProxy: without a target a redirect to the dashboard,
\* otherwise the upstream response through ModifyResponse
handleProxy(host, up) ==
    LET t == targetForRequest(host)
    IN IF ~t[3]
       THEN [status |-> StatusTemporaryRedirect, ct |-> <<>>, body |-> <<>>,
             contentLength |-> 0, space |-> "cheetah", port |-> DashboardPort]
       ELSE ModifyResponse(up, t[1], t[2])

\* a request is proxied to the guest, which answers with `up`
Proxy(host, up) ==
    /\ UNCHANGED notProxy
    /\ phost' = host
    /\ ptarget' = targetForRequest(host)
    /\ pup' = up
    /\ presp' = handleProxy(host, up)
    /\ proxied' = TRUE
    /\ UNCHANGED regVars

\* one call of targetForRequest
TargetForRequest(host) ==
    /\ UNCHANGED notProxy
    /\ phost' = host
    /\ ptarget' = targetForRequest(host)
    /\ proxied' = TRUE
    /\ UNCHANGED <<regVars, pup, presp>>

\* POST /api/apps between requests
ProxyRegister(req) ==
    /\ UNCHANGED notProxy
    /\ Known(req.space) \/ nextPort1 < BluePortStart + 2 * MaxAllocsState
    /\ register(req)
    /\ surviving' = surviving \cup {req.space}
    /\ UNCHANGED <<ret, logClock, proxyVars>>

\* DELETE /api/apps/:space between requests
ProxyDeregister(space) ==
    /\ UNCHANGED notProxy
    /\ Known(space)
    /\ deregister(space)
    /\ surviving' = surviving \ {space}
    /\ UNCHANGED <<ret, nextPort1, logClock, proxyVars>>

\* PUT /api/apps/:space/health after a swap of the supervisor: the other port
\* of the pair becomes active
ProxyUpdateHealth(space) ==
    /\ UNCHANGED notProxy
    /\ Known(space)
    /\ updateHealth(space, "healthy",
                    IF apps[space].active = apps[space].blue
                    THEN apps[space].green ELSE apps[space].blue)
    /\ UNCHANGED <<lastRegistered, nextPort1, ret, surviving, logClock, proxyVars>>

ProxyHosts == { [labels |-> <<"a", "localhost">>, port |-> DashboardPort],
                [labels |-> <<"localhost">>, port |-> DashboardPort] }

NextProxy ==
    \/ \E req \in AppInState : ProxyRegister(req)
    \/ \E sp \in Spaces : ProxyDeregister(sp)
    \/ \E h \in ProxyHosts, up \in Upstreams : Proxy(h, up)

AppInRoute == { [space |-> sp, dir |-> "/w/one", config |-> "cheetah", watch |-> "*.go"] :
                   sp \in RouteSpaces }

NextRoute ==
    \/ \E req \in AppInRoute : ProxyRegister(req)
    \/ \E sp \in RouteSpaces : ProxyDeregister(sp)
    \/ \E sp \in RouteSpaces : ProxyUpdateHealth(sp)
    \/ \E h \in Hosts : TargetForRequest(h)

\* ------------------------------------------------------------ the middleware

\* URL paths as sequences of segments, and whether the query carries the two
\* parameters of an OAuth callback
Paths == { <<"auth", "callback">>, <<"auth", "google", "callback">>,
           <<"auth", "login">>, <<"dashboard">> }
Requests == { [host |-> h, path |-> pa, code |-> c, state |-> st] :
                 h \in Hosts, pa \in Paths, c \in BOOLEAN, st \in BOOLEAN }
NoDispatch == [host |-> NoHost, path |-> <<>>, code |-> FALSE, state |-> FALSE]

InitDispatch ==
    /\ dreq = NoDispatch
    /\ dhandler = ""

\* the function Server.Middleware installs: the handler a request is passed to
Middleware(req) ==
    LET sub == extractSubdomain(req.host)
    IN IF sub = "" /\ req.path = <<"auth", "callback">>
       THEN "handleOAuthBounce"
       ELSE IF sub # "cheetah"
       THEN "handleProxy"
       ELSE "next"

\* one request goes through the middleware
Dispatch(req) ==
    /\ UNCHANGED notDispatch
    /\ dreq' = req
    /\ dhandler' = Middleware(req)

NextDispatch == \E req \in Requests : Dispatch(req)

\* ---- Run of the supervisor: start(blue), WaitForHealthy(blue), reports

notRun == <<portVars, regVars, stateVars, eventVars, pgVars, oauthVars, proxyVars,
           fileVars, allocVars, dispatchVars, logVars, configVars, hashVars,
           reportVars, watchVars, rebaseVars, snapVars, ensureVars, followVars,
           tailVars>>

\* what Config.CheckHealth can return: HealthResults and one more status
\* that is not 200
RunHealthResults == HealthResults \cup {[status |-> StatusBadGateway, err |-> FALSE]}

RunIdle ==
    /\ rpc = "start"
    /\ wi = 0
    /\ wchecks = <<>>
    /\ wsleeps = 0
    /\ wret = "none"
    /\ rsent = <<>>

\* port.New(blue, green, DefaultConfig(...)) with the default CheckRetries
InitRun == RunIdle /\ wn = CheckRetries

\* port.New(blue, green, cfg) with any CheckRetries
InitRunAny == RunIdle /\ wn \in 0..CheckRetries

\* Run: runner.start(resp.Ports.Blue); on an error Run goes on to the watcher
\* (or exits) without a report
RunStart(err) ==
    /\ UNCHANGED notRun
    /\ rpc = "start"
    /\ rpc' = IF err THEN "watch" ELSE "reportUnknown"
    /\ UNCHANGED <<wn, wi, wchecks, wsleeps, wret, rsent>>

\* Run: ports.ReportHealth("unknown")
RunReportUnknown ==
    /\ UNCHANGED notRun
    /\ rpc = "reportUnknown"
    /\ rsent' = Append(rsent, <<"unknown", active>>)
    /\ rpc' = "wait"
    /\ UNCHANGED <<wn, wi, wchecks, wsleeps, wret>>

\* mutant: the loop goes on after a check that returned 200
WaitForHealthy_NoReturn(r) ==
    /\ UNCHANGED notRun
    /\ rpc = "wait"
    /\ wi < wn
    /\ wsleeps' = wsleeps + 1
    /\ wchecks' = Append(wchecks, r)
    /\ wi' = wi + 1
    /\ UNCHANGED <<rpc, wret>>
    /\ UNCHANGED <<wn, rsent>>

\* WaitForHealthy, lines 77-83: one turn of the loop, CheckHealth returning
\* r: sleep, check, return true on 200 without error
WaitForHealthy(r) ==
    /\ UNCHANGED notRun
    /\ rpc = "wait"
    /\ wi < wn
    /\ wsleeps' = wsleeps + 1
    /\ wchecks' = Append(wchecks, r)
    /\ IF IsHealthy(r)
       THEN /\ wret' = "true"
            /\ rpc' = "reportHealthy"
            /\ UNCHANGED wi
       ELSE /\ wi' = wi + 1
            /\ UNCHANGED <<rpc, wret>>
    /\ UNCHANGED <<wn, rsent>>

\* WaitForHealthy, line 84: the loop is over, return false; Run does not
\* look at the result
WaitForHealthyFalse ==
    /\ UNCHANGED notRun
    /\ rpc = "wait"
    /\ wi >= wn
    /\ wret' = "false"
    /\ rpc' = "reportHealthy"
    /\ UNCHANGED <<wn, wi, wchecks, wsleeps, rsent>>

\* Run: ports.ReportHealth("healthy")
RunReportHealthy ==
    /\ UNCHANGED notRun
    /\ rpc = "reportHealthy"
    /\ rsent' = Append(rsent, <<"healthy", active>>)
    /\ rpc' = "watch"
    /\ UNCHANGED <<wn, wi, wchecks, wsleeps, wret>>

NextRun ==
    \/ \E err \in BOOLEAN : RunStart(err)
    \/ RunReportUnknown
    \/ \E r \in RunHealthResults : WaitForHealthy(r)
    \/ WaitForHealthyFalse
    \/ RunReportHealthy

\* ---- watcher callbacks and the rebuilds they start

notTail == <<portVars, regVars, stateVars, eventVars, pgVars, oauthVars, proxyVars,
            fileVars, allocVars, dispatchVars, logVars, configVars, hashVars,
            reportVars, watchVars, rebaseVars, snapVars, ensureVars, followVars,
            runVars>>
notDebounce == <<notTail, lockVars>>

Layers == {"supervisor", "proxy"}
NoTimer == 0 - 1

DebounceIdle ==
    /\ dnow = 0
    /\ dcalls = <<>>
    /\ dstarts = <<>>
    /\ dtimer = NoTimer
    /\ dfree = 0

InitDebounce == DebounceIdle /\ dlayer = "supervisor"

InitDebounceAny == DebounceIdle /\ dlayer \in Layers

\* Run's callback: runner.rebuild(path) for a path that needs no sync, which
\* calls Swap at once, on the watcher's goroutine. Swap returns after start
\* has failed (build ticks later), or no sooner than one CheckInterval after
\* start; the watcher sleeps one tick before it looks again.
SupervisorCallback(err, build) ==
    /\ UNCHANGED notDebounce
    /\ dlayer = "supervisor"
    /\ dnow >= dfree
    /\ Len(dcalls) < MaxCallbacks
    /\ dcalls' = Append(dcalls, dnow)
    /\ dstarts' = Append(dstarts, dnow)
    /\ dfree' = dnow + build + (IF err THEN 0 ELSE CheckIntervalTicks) + 1
    /\ UNCHANGED <<dlayer, dnow, dtimer>>

\* main's callback: stop restartTimer and arm it anew, 500 ms from now. A
\* timer that is due fires before the tick, which comes after a sleep.
ProxyCallback ==
    /\ UNCHANGED notDebounce
    /\ dlayer = "proxy"
    /\ dnow >= dfree
    /\ dtimer # dnow
    /\ Len(dcalls) < MaxCallbacks
    /\ dcalls' = Append(dcalls, dnow)
    /\ dtimer' = dnow + DebounceTicks
    /\ dfree' = dnow + 1
    /\ UNCHANGED <<dlayer, dnow, dstarts>>

\* restartTimer fires: runner.restart()
TimerFire ==
    /\ UNCHANGED notDebounce
    /\ dtimer = dnow
    /\ dstarts' = Append(dstarts, dnow)
    /\ dtimer' = NoTimer
    /\ UNCHANGED <<dlayer, dnow, dcalls, dfree>>

\* one watcher tick (watchIntervalSleep) passes
Advance ==
    /\ UNCHANGED notDebounce
    /\ dnow < MaxTime
    /\ dtimer # dnow
    /\ dnow' = dnow + 1
    /\ UNCHANGED <<dlayer, dcalls, dstarts, dtimer, dfree>>

NextDebounce ==
    \/ \E err \in BOOLEAN, build \in 0..MaxBuildTicks : SupervisorCallback(err, build)
    \/ ProxyCallback
    \/ TimerFire
    \/ Advance

\* ---- the daemon's threads on s.mu (a sync.RWMutex) and s.subMu

notLocks == <<notTail, debVars>>

LockThreads == {"h1", "h2", "probe"}

LockOps == {"handleAppPost", "handleAppDelete", "handleHealthPut",
            "handleEventsStream", "handleEnvPut", "handleProxy", "SaveState",
            "probeHealth"}

\* the lock operations of the registry calls and of the subscriber calls
Write == <<"mu.Lock", "mu.Unlock">>
Read == <<"mu.RLock", "mu.RUnlock">>
Sub == <<"subMu.Lock", "subMu.Unlock">>

\* mutant: the startup probe broadcasts before it unlocks the registry
Program_BroadcastLocked(op) ==
    CASE op = "handleAppPost" -> Write \o Sub
      [] op = "handleAppDelete" -> Write \o Sub
      [] op = "handleHealthPut" -> Write \o Read \o Sub
      [] op = "handleEventsStream" -> Read \o Sub \o Sub
      [] op = "handleEnvPut" -> Write \o Read \o Sub
      [] op = "handleProxy" -> Read \o Read
      [] op = "SaveState" -> Read
      [] op = "probeHealth" -> Read \o <<"mu.Lock">> \o Sub \o <<"mu.Unlock">>

\* what each thread does to the two mutexes, in program order: register or
\* deregister and then broadcast; updateHealth, get, broadcast; list,
\* subscribe, unsubscribe; envReplace, envGet, broadcast; targetForRequest
\* with activeTarget; SaveState; probeHealth for one healthy app
Program(op) ==
    CASE op = "handleAppPost" -> Write \o Sub
      [] op = "handleAppDelete" -> Write \o Sub
      [] op = "handleHealthPut" -> Write \o Read \o Sub
      [] op = "handleEventsStream" -> Read \o Sub \o Sub
      [] op = "handleEnvPut" -> Write \o Read \o Sub
      [] op = "handleProxy" -> Read \o Read
      [] op = "SaveState" -> Read
      [] op = "probeHealth" -> Read \o Write \o Sub

InitLocks ==
    /\ lprog = [t \in LockThreads |-> <<>>]
    /\ lheld = [t \in LockThreads |-> {}]
    /\ lops = 0

HoldsMu(t) == lheld[t] \cap {"mu.w", "mu.r"} # {}
HoldsSub(t) == "subMu" \in lheld[t]

\* a writer of s.mu that has called Lock keeps later readers out
\* (sync.RWMutex); it gets the lock when nobody holds it
Ready(t) ==
    /\ lprog[t] # <<>>
    /\ CASE Head(lprog[t]) = "mu.Lock" ->
               "mu.pending" \in lheld[t] => \A u \in LockThreads : ~HoldsMu(u)
          [] Head(lprog[t]) = "mu.RLock" ->
               \A u \in LockThreads : lheld[u] \cap {"mu.w", "mu.pending"} = {}
          [] Head(lprog[t]) = "subMu.Lock" ->
               \A u \in LockThreads : ~HoldsSub(u)
          [] OTHER -> TRUE

\* a request arrives, the save timer fires, or LoadState starts the probe
LockBegin(t, op) ==
    /\ UNCHANGED notLocks
    /\ lprog[t] = <<>>
    /\ lops < MaxLockOps
    /\ (op = "probeHealth") = (t = "probe")
    /\ lprog' = [lprog EXCEPT ![t] = Program(op)]
    /\ lops' = lops + 1
    /\ UNCHANGED lheld

\* the thread's next lock operation
LockStep(t) ==
    /\ UNCHANGED notLocks
    /\ Ready(t)
    /\ LET op == Head(lprog[t]) IN
       IF op = "mu.Lock" /\ "mu.pending" \notin lheld[t]
       THEN /\ lheld' = [lheld EXCEPT ![t] = @ \cup {"mu.pending"}]
            /\ UNCHANGED lprog
       ELSE /\ lheld' = [lheld EXCEPT ![t] =
                  CASE op = "mu.Lock" -> (@ \ {"mu.pending"}) \cup {"mu.w"}
                    [] op = "mu.Unlock" -> @ \ {"mu.w"}
                    [] op = "mu.RLock" -> @ \cup {"mu.r"}
                    [] op = "mu.RUnlock" -> @ \ {"mu.r"}
                    [] op = "subMu.Lock" -> @ \cup {"subMu"}
                    [] op = "subMu.Unlock" -> @ \ {"subMu"}]
            /\ lprog' = [lprog EXCEPT ![t] = Tail(@)]
    /\ UNCHANGED lops

NextLocks ==
    \/ \E t \in LockThreads, op \in LockOps : LockBegin(t, op)
    \/ \E t \in LockThreads : LockStep(t)

\* ---- a client that follows the redirects of handleOAuthBounce

NoFollow == [host |-> NoHost, path |-> <<>>, code |-> "", state |-> <<>>]

InitFollow ==
    /\ freq = NoFollow
    /\ fhandler = ""
    /\ fhops = 0

\* the text of a token sequence, as fmt.Sprintf("%s", space) writes it
RECURSIVE Text(_)
Text(q) == IF q = <<>> THEN "" ELSE Head(q) \o Text(Tail(q))

\* the request a client sends for the Location of a 307 of handleOAuthBounce:
\* http://<space>.localhost:<port>/auth/callback?... or, with no space,
\* http://localhost:<port>/auth/callback?...
RequestFor(resp) ==
    [host |-> [labels |-> IF resp.sub = <<>> THEN <<"localhost">>
                          ELSE <<Text(resp.sub), "localhost">>,
               port |-> resp.port],
     path |-> <<"auth", "callback">>,
     code |-> resp.code,
     state |-> resp.state]

notFollow == <<portVars, regVars, stateVars, eventVars, pgVars, oauthVars, proxyVars,
              fileVars, allocVars, dispatchVars, logVars, configVars, hashVars,
              reportVars, watchVars, rebaseVars, snapVars, ensureVars, runVars,
              tailVars>>

\* the provider sends the browser to the dashboard host with state st
FollowArrive(st) ==
    /\ UNCHANGED notFollow
    /\ LET req == [host |-> [labels |-> <<"localhost">>, port |-> DashboardPort],
                   path |-> <<"auth", "callback">>, code |-> "abc", state |-> st]
       IN /\ freq' = req
          /\ fhandler' = Middleware(req)
    /\ fhops' = 0

\* the browser follows the 307 that handleOAuthBounce answered
FollowRedirect ==
    /\ UNCHANGED notFollow
    /\ fhandler = "handleOAuthBounce"
    /\ fhops < MaxHops
    /\ LET resp == handleOAuthBounce([sub |-> <<>>, path |-> "/auth/callback",
                                      code |-> freq.code, state |-> freq.state])
           req == RequestFor(resp)
       IN /\ freq' = req
          /\ fhandler' = Middleware(req)
    /\ fhops' = fhops + 1

NextFollow ==
    \/ \E st \in StateParams : FollowArrive(st)
    \/ FollowRedirect

\* -------------------------------------------------------------- pkg/config

\* Values are token sequences, the empty string is <<>>. Every source has a
\* value of its own, so that a result names the source it came from.
EnvKeys == {"PORT", "SECRET"}
Quote == "\""
Maps(keys, vals) == UNION { [ks -> vals] : ks \in SUBSET keys }

\* Lines of an env file: a comment, or KEY=raw with an optional `export `
Comment == [key |-> "#", raw |-> <<>>]
Assign(k, raw) == [key |-> k, raw |-> raw]
NoData == <<[key |-> "", raw |-> <<>>]>>    \* ReadFile returned an error

\* the texts of .envrc.example or .envrc whose values say `v`
FileTexts(v) ==
    { NoData,
      <<>>,
      <<Comment, Assign("PORT", <<v>>)>>,
      <<Assign("PORT", <<Quote, v, Quote>>), Assign("SECRET", <<v>>)>>,
      <<Assign("PORT", <<Quote, Quote>>)>>,
      <<Assign("PORT", <<v>>), Assign("PORT", <<>>)>>,
      <<Assign("SECRET", <<v>>)>> }

\* a LoadIn map is nil or a map
NilMap == [nil |-> TRUE, m |-> EmptyMap]
MapOf(m) == [nil |-> FALSE, m |-> m]
DefaultsMaps == {NilMap} \cup { MapOf(m) : m \in Maps(EnvKeys, {<<>>, <<"df">>}) }
ProxyMaps == {NilMap} \cup { MapOf(m) : m \in Maps(EnvKeys, {<<>>, <<"px">>}) }
Getenvs == [EnvKeys -> {<<>>, <<"os">>}]

LoadInputs ==
    { [example |-> ex, envrc |-> rc, defaults |-> df, proxyEnv |-> px, getenv |-> ge] :
         ex \in FileTexts("ex"), rc \in FileTexts("rc"),
         df \in DefaultsMaps, px \in ProxyMaps, ge \in Getenvs }
NoOut == [env |-> EmptyMap, providers |-> <<"none">>]

NoLoadIn == [example |-> NoData, envrc |-> NoData, defaults |-> NilMap,
             proxyEnv |-> NilMap, getenv |-> [k \in EnvKeys |-> <<>>]]

\* no Load call is made
InitConfig ==
    /\ loadIn = NoLoadIn
    /\ loadOut = NoOut

\* a supervisor about to call Load in any directory and environment
InitLoad ==
    /\ loadIn \in LoadInputs
    /\ loadOut = NoOut

\* the quote stripping of ParseExample
Unquote(raw) ==
    IF Len(raw) >= 2 /\ raw[1] = Quote /\ raw[Len(raw)] = Quote
    THEN SubSeq(raw, 2, Len(raw) - 1)
    ELSE raw

\* ParseExample: comments are skipped, a later line of a key replaces an
\* earlier one
RECURSIVE ParseExample(_)
ParseExample(data) ==
    IF data = <<>> THEN EmptyMap
    ELSE LET n == Len(data)
             before == ParseExample(SubSeq(data, 1, n - 1))
         IN IF data[n].key = "#" THEN before
            ELSE Put(before, data[n].key, Unquote(data[n].raw))

\* vars[k] = v for every (k, v) of m
Override(f, m) ==
    [k \in DOMAIN f \cup DOMAIN m |-> IF k \in DOMAIN m THEN m[k] ELSE f[k]]

\* some value of m is not the empty string
Contributed(m) == \E k \in DOMAIN m : m[k] # <<>>

\* mutant: the proxy env is applied after .envrc
Load_ProxyLast(inp) ==
    LET df == inp.defaults
        ex == IF inp.example = NoData THEN EmptyMap ELSE ParseExample(inp.example)
        exKept == [k \in { x \in DOMAIN ex : df.nil \/ x \in DOMAIN df.m } |-> ex[k]]
        v1 == exKept
        dfSet == [k \in { x \in DOMAIN df.m : df.m[x] # <<>> \/ x \notin DOMAIN v1 }
                    |-> df.m[k]]
        v2 == Override(v1, dfSet)
        rc == IF inp.envrc = NoData THEN EmptyMap ELSE ParseExample(inp.envrc)
        v3 == Override(v2, rc)
        v4 == Override(v3, inp.proxyEnv.m)
        v5 == [k \in DOMAIN v4 |-> IF inp.getenv[k] # <<>> THEN inp.getenv[k] ELSE v4[k]]
    IN [env |-> v5, providers |-> <<>>]

\* Load(env, dir, in), lines 74-152; main.go exists in the directory
Load(inp) ==
    LET df == inp.defaults
        ex == IF inp.example = NoData THEN EmptyMap ELSE ParseExample(inp.example)
        exKept == [k \in { x \in DOMAIN ex : df.nil \/ x \in DOMAIN df.m } |-> ex[k]]
        v1 == exKept
        p1 == IF Contributed(exKept) THEN <<".envrc.example">> ELSE <<>>
        dfSet == [k \in { x \in DOMAIN df.m : df.m[x] # <<>> \/ x \notin DOMAIN v1 }
                    |-> df.m[k]]
        v2 == Override(v1, dfSet)
        p2 == IF ~df.nil /\ Contributed(df.m) THEN Append(p1, "main.go") ELSE p1
        v3 == Override(v2, inp.proxyEnv.m)
        p3 == IF Contributed(inp.proxyEnv.m) THEN Append(p2, "cheetah") ELSE p2
        rc == IF inp.envrc = NoData THEN EmptyMap ELSE ParseExample(inp.envrc)
        v4 == Override(v3, rc)
        p4 == IF Contributed(rc) THEN Append(p3, ".envrc") ELSE p3
        v5 == [k \in DOMAIN v4 |-> IF inp.getenv[k] # <<>> THEN inp.getenv[k] ELSE v4[k]]
    IN [env |-> v5, providers |-> p4]

\* the supervisor loads its environment
LoadCall ==
    /\ UNCHANGED notConfig
    /\ loadOut = NoOut
    /\ loadOut' = Load(loadIn)
    /\ UNCHANGED loadIn

NextConfig == LoadCall

\* ---------------------------------------------------------- pkg/pg: Hash

\* File names and contents are sequences of tokens; a token stands for the
\* bytes it spells, and no token is a prefix of another.
TokenRank(tok) ==
    CASE tok = ".sql" -> 1
      [] tok = ".txt" -> 2
      [] tok = "1" -> 3
      [] tok = "2" -> 4

\* the names a file of the directory may have
HashNames == { <<"1", ".sql">>, <<"2", ".sql">>, <<"1", ".txt">>,
               <<"1", ".sql", "2", ".sql">>, <<"2", ".sql", "1", ".sql">>,
               <<"1", ".sql", "2", ".sql", "1", ".sql">> }
HashData == SeqsUpTo({"1", "2"}, MaxDataLen)
HashDirs == UNION { [ns -> HashData] :
                       ns \in { x \in SUBSET HashNames : Cardinality(x) <= MaxFiles } }

\* the order of sort.Strings
RECURSIVE StringLess(_, _)
StringLess(x, y) ==
    IF y = <<>> THEN FALSE
    ELSE IF x = <<>> THEN TRUE
    ELSE IF Head(x) # Head(y) THEN TokenRank(Head(x)) < TokenRank(Head(y))
    ELSE StringLess(Tail(x), Tail(y))

RECURSIVE SortStrings(_)
SortStrings(names) ==
    IF names = {} THEN <<>>
    ELSE LET least == CHOOSE n \in names : \A m \in names \ {n} : StringLess(n, m)
         IN <<least>> \o SortStrings(names \ {least})

\* strings.HasSuffix(name, ".sql")
HasSuffixSql(name) == Len(name) >= 1 /\ name[Len(name)] = ".sql"

\* what Hash writes to the digest for a directory: for each .sql file in name
\* order the name, then the content
RECURSIVE WriteAll(_, _)
WriteAll(names, dir) ==
    IF names = <<>> THEN <<>>
    ELSE Head(names) \o dir[Head(names)] \o WriteAll(Tail(names), dir)

HashStream(dir) ==
    WriteAll(SortStrings({ n \in DOMAIN dir : HasSuffixSql(n) }), dir)

\* fmt.Sprintf("%x", h.Sum(nil))[:12]: the first 12 hex characters of the
\* SHA-256 of the stream, a value fixed by the stream
Hash(dir) == [len |-> FingerprintLen, sha256 |-> HashStream(dir)]

NoHash == [len |-> 0, sha256 |-> <<>>]

\* no Hash call is made
InitHash ==
    /\ hdir = EmptyMap
    /\ hashPc = "idle"
    /\ hop = "none"
    /\ hstream = <<<<>>, <<>>>>
    /\ hret = <<NoHash, NoHash>>

\* a supervisor about to hash any migration directory
InitHashDir ==
    /\ hdir \in HashDirs
    /\ hashPc = "start"
    /\ hop = "none"
    /\ hstream = <<<<>>, <<>>>>
    /\ hret = <<NoHash, NoHash>>

\* the first Hash call
HashFirst ==
    /\ UNCHANGED notHash
    /\ hashPc = "start"
    /\ hstream' = [hstream EXCEPT ![1] = HashStream(hdir)]
    /\ hret' = [hret EXCEPT ![1] = Hash(hdir)]
    /\ hashPc' = "hashed"
    /\ UNCHANGED <<hdir, hop>>

\* mv old new inside the directory, new being a free name
HashRename(oldName, newName) ==
    /\ UNCHANGED notHash
    /\ hashPc = "hashed"
    /\ oldName \in DOMAIN hdir /\ newName \notin DOMAIN hdir
    /\ hdir' = [n \in (DOMAIN hdir \ {oldName}) \cup {newName} |->
                   IF n = newName THEN hdir[oldName] ELSE hdir[n]]
    /\ hop' = IF HasSuffixSql(oldName) THEN "renamed" ELSE "other"
    /\ hashPc' = "edited"
    /\ UNCHANGED <<hstream, hret>>

\* one byte of one file gets another value
HashWriteByte(name, i, b) ==
    /\ UNCHANGED notHash
    /\ hashPc = "hashed"
    /\ name \in DOMAIN hdir /\ i \in 1..Len(hdir[name]) /\ hdir[name][i] # b
    /\ hdir' = [hdir EXCEPT ![name][i] = b]
    /\ hop' = IF HasSuffixSql(name) THEN "written" ELSE "other"
    /\ hashPc' = "edited"
    /\ UNCHANGED <<hstream, hret>>

\* the second Hash call, on the directory as it is now
HashSecond ==
    /\ UNCHANGED notHash
    /\ hashPc \in {"hashed", "edited"}
    /\ hstream' = [hstream EXCEPT ![2] = HashStream(hdir)]
    /\ hret' = [hret EXCEPT ![2] = Hash(hdir)]
    /\ hashPc' = "done"
    /\ UNCHANGED <<hdir, hop>>

NextHash ==
    \/ HashFirst
    \/ \E o \in HashNames, n \in HashNames : HashRename(o, n)
    \/ \E n \in HashNames, i \in 1..MaxDataLen, b \in {"1", "2"} : HashWriteByte(n, i, b)
    \/ HashSecond

\* --------------------------------------------------------------- pkg/watch

\* the files under the watched directory that match the patterns
WatchPaths == {"a.go", "b.go"}

\* w.modTimes[path], the zero time for a missing key
ModTime(m, path) == IF path \in DOMAIN m THEN m[path] ELSE 0

\* Watcher.Scan: the modification times of the files that exist
Scan == [path \in { x \in DOMAIN wdisk : wdisk[x] # 0 } |-> wdisk[path]]

\* Watcher.Start: modTimes = Scan(), then the goroutine
InitWatch ==
    /\ wdisk = [path \in WatchPaths |-> 1]
    /\ wclock = 1
    /\ modTimes = [path \in WatchPaths |-> 1]
    /\ recentItems = <<>>
    /\ itemsToScan = <<>>
    /\ itemsPerIteration = 0
    /\ rescanCounter = 0
    /\ dirtyPath = ""
    /\ waiting = [path \in WatchPaths |-> 0]
    /\ reported = [path \in WatchPaths |-> 0]

\* Watcher.isDirty: the bool it returns and the modTimes it leaves
isDirty(m, path) ==
    wdisk[path] = 0 \/ wdisk[path] > ModTime(m, path)
isDirtyModTimes(m, path) ==
    IF wdisk[path] = 0 THEN Remove(m, path)
    ELSE IF wdisk[path] > ModTime(m, path) THEN Put(m, path, wdisk[path])
    ELSE m

\* Watcher.RefreshFileList: the modTimes it leaves (itemsToScan is emptied)
RefreshFileList(m) ==
    [path \in DOMAIN Scan |-> IF path \in DOMAIN m THEN m[path] ELSE Scan[path]]

\* the orders rand.Shuffle may leave the keys of modTimes in
Shuffles(S) ==
    { q \in [1..Cardinality(S) -> S] : \A i, j \in 1..Cardinality(S) : q[i] = q[j] => i = j }

\* the first index of q whose path is dirty, 0 if there is none
FirstDirty(m, q) ==
    LET hits == { i \in 1..Len(q) : isDirty(m, q[i]) }
    IN IF hits = {} THEN 0 ELSE CHOOSE i \in hits : \A j \in hits : i <= j

\* q without its i-th element
Without(q, i) == SubSeq(q, 1, i - 1) \o SubSeq(q, i + 1, Len(q))

\* mutant: the list that is full drops the path just found, not its oldest
tryToFindDirtyPath_DropNewest(m, scan, shuffled) ==
    LET rebuilt == scan = <<>>
        items == IF rebuilt THEN shuffled ELSE scan
        ceil == (Len(items) + maxIntervalsBeforeUpdate - 1) \div maxIntervalsBeforeUpdate
        perIter == IF ~rebuilt THEN itemsPerIteration
                   ELSE IF ceil < minItemCountPerIter THEN minItemCountPerIter ELSE ceil
        r == FirstDirty(m, recentItems)
        remainingCount == IF Len(items) - perIter < 0 THEN 0 ELSE Len(items) - perIter
        toCheck == SubSeq(items, remainingCount + 1, Len(items))
        b == FirstDirty(m, toCheck)
        grown == Append(recentItems, toCheck[b])
    IN IF r # 0
       THEN [path |-> recentItems[r],
             modTimes |-> isDirtyModTimes(m, recentItems[r]),
             recentItems |-> Append(Without(recentItems, r), recentItems[r]),
             itemsToScan |-> items,
             itemsPerIteration |-> perIter]
       ELSE IF b # 0
       THEN [path |-> toCheck[b],
             modTimes |-> isDirtyModTimes(m, toCheck[b]),
             recentItems |-> IF Len(grown) > maxRecentItemCount
                             THEN recentItems ELSE grown,
             itemsToScan |-> SubSeq(items, 1, remainingCount),
             itemsPerIteration |-> perIter]
       ELSE [path |-> "",
             modTimes |-> m,
             recentItems |-> recentItems,
             itemsToScan |-> SubSeq(items, 1, remainingCount),
             itemsPerIteration |-> perIter]

\* Watcher.tryToFindDirtyPath on modTimes m and scan list `scan`, `shuffled`
\* being the order a rebuilt scan list gets
tryToFindDirtyPath(m, scan, shuffled) ==
    LET rebuilt == scan = <<>>
        items == IF rebuilt THEN shuffled ELSE scan
        ceil == (Len(items) + maxIntervalsBeforeUpdate - 1) \div maxIntervalsBeforeUpdate
        perIter == IF ~rebuilt THEN itemsPerIteration
                   ELSE IF ceil < minItemCountPerIter THEN minItemCountPerIter ELSE ceil
        r == FirstDirty(m, recentItems)
        remainingCount == IF Len(items) - perIter < 0 THEN 0 ELSE Len(items) - perIter
        toCheck == SubSeq(items, remainingCount + 1, Len(items))
        b == FirstDirty(m, toCheck)
        grown == Append(recentItems, toCheck[b])
    IN IF r # 0
       THEN [path |-> recentItems[r],
             modTimes |-> isDirtyModTimes(m, recentItems[r]),
             recentItems |-> Append(Without(recentItems, r), recentItems[r]),
             itemsToScan |-> items,
             itemsPerIteration |-> perIter]
       ELSE IF b # 0
       THEN [path |-> toCheck[b],
             modTimes |-> isDirtyModTimes(m, toCheck[b]),
             recentItems |-> IF Len(grown) > maxRecentItemCount
                             THEN Tail(grown) ELSE grown,
             itemsToScan |-> SubSeq(items, 1, remainingCount),
             itemsPerIteration |-> perIter]
       ELSE [path |-> "",
             modTimes |-> m,
             recentItems |-> recentItems,
             itemsToScan |-> SubSeq(items, 1, remainingCount),
             itemsPerIteration |-> perIter]

\* one iteration of the loop of Start after its sleep: the rescan every
\* rescanInterval iterations, tryToFindDirtyPath, onChange
TickResult(shuffled) ==
    LET refresh == rescanCounter + 1 >= rescanInterval
        m == IF refresh THEN RefreshFileList(modTimes) ELSE modTimes
        scan == IF refresh THEN <<>> ELSE itemsToScan
    IN tryToFindDirtyPath(m, scan, shuffled)

TickModTimes ==
    IF rescanCounter + 1 >= rescanInterval THEN RefreshFileList(modTimes) ELSE modTimes

TickStep(out) ==
    /\ UNCHANGED notWatch
    /\ modTimes' = out.modTimes
    /\ recentItems' = out.recentItems
    /\ itemsToScan' = out.itemsToScan
    /\ itemsPerIteration' = out.itemsPerIteration
    /\ dirtyPath' = out.path
    /\ rescanCounter' = IF rescanCounter + 1 >= rescanInterval THEN 0
                        ELSE rescanCounter + 1
    /\ UNCHANGED <<wdisk, wclock>>

\* the iteration, with the history of the callback: how often each path was
\* given to onChange since its last change on disk, and for how many
\* iterations a tracked dirty path has been waiting
Tick ==
    \E shuffled \in Shuffles(DOMAIN TickModTimes) :
        LET out == TickResult(shuffled)
        IN /\ TickStep(out)
           /\ reported' = [path \in WatchPaths |->
                 IF out.path = path /\ reported[path] < 2
                 THEN reported[path] + 1 ELSE reported[path]]
           /\ waiting' = [path \in WatchPaths |->
                 IF out.path = path THEN 0
                 ELSE IF path \in DOMAIN modTimes /\ isDirty(modTimes, path)
                 THEN IF waiting[path] <= maxIntervalsBeforeUpdate
                      THEN waiting[path] + 1 ELSE waiting[path]
                 ELSE 0]

\* the iteration alone, the history left as it is
LoopTick ==
    \E shuffled \in Shuffles(DOMAIN TickModTimes) :
        /\ TickStep(TickResult(shuffled))
        /\ UNCHANGED <<waiting, reported>>

\* a file is written: its modification time becomes the current time
WatchWrite(path) ==
    /\ UNCHANGED notWatch
    /\ wclock <= MaxTouches
    /\ wclock' = wclock + 1
    /\ wdisk' = [wdisk EXCEPT ![path] = wclock + 1]
    /\ reported' = [reported EXCEPT ![path] = 0]
    /\ UNCHANGED <<modTimes, recentItems, itemsToScan, itemsPerIteration,
                   rescanCounter, dirtyPath, waiting>>

\* a file is deleted
WatchDelete(path) ==
    /\ UNCHANGED notWatch
    /\ wclock <= MaxTouches
    /\ wdisk[path] # 0
    /\ wclock' = wclock + 1
    /\ wdisk' = [wdisk EXCEPT ![path] = 0]
    /\ reported' = [reported EXCEPT ![path] = 0]
    /\ UNCHANGED <<modTimes, recentItems, itemsToScan, itemsPerIteration,
                   rescanCounter, dirtyPath, waiting>>

NextWatch ==
    \/ Tick
    \/ \E path \in WatchPaths : WatchWrite(path)
    \/ \E path \in WatchPaths : WatchDelete(path)

\* the loop running for ever over a disk that changes MaxDiskChanges times
LoopWrite(path) == wclock <= MaxDiskChanges /\ WatchWrite(path)
LoopDelete(path) == wclock <= MaxDiskChanges /\ WatchDelete(path)

NextWatchLoop ==
    \/ LoopTick
    \/ \E path \in WatchPaths : LoopWrite(path)
    \/ \E path \in WatchPaths : LoopDelete(path)

\* ---- a directory of seventeen files, one more than the recent list holds

ManyOrder == <<"p01.go", "p02.go", "p03.go", "p04.go", "p05.go", "p06.go",
               "p07.go", "p08.go", "p09.go", "p10.go", "p11.go", "p12.go",
               "p13.go", "p14.go", "p15.go", "p16.go", "p17.go">>
ManyPaths == { ManyOrder[i] : i \in DOMAIN ManyOrder }

\* the files that are written while the watcher runs
Touched == {"p01.go", "p09.go", "p16.go", "p17.go"}

\* Watcher.Start on the directory, and the recent list after the first k
\* files have been changed and reported one after the other: empty, one
\* short of full, or full
InitMany ==
    /\ wdisk = [path \in ManyPaths |-> 1]
    /\ wclock = 1
    /\ modTimes = [path \in ManyPaths |-> 1]
    /\ \E k \in {0, maxRecentItemCount - 1, maxRecentItemCount} :
          recentItems = SubSeq(ManyOrder, 1, k)
    /\ itemsToScan = <<>>
    /\ itemsPerIteration = 0
    /\ rescanCounter = 0
    /\ dirtyPath = ""
    /\ waiting = [path \in ManyPaths |-> 0]
    /\ reported = [path \in ManyPaths |-> 0]

\* two of the orders rand.Shuffle may leave the keys S of modTimes in
ManyShuffles(S) ==
    LET up == SelectSeq(ManyOrder, LAMBDA x : x \in S)
    IN {up, [i \in 1..Len(up) |-> up[Len(up) + 1 - i]]}

\* the iteration of the loop of Start
ManyTick ==
    \E shuffled \in ManyShuffles(DOMAIN TickModTimes) :
        /\ TickStep(TickResult(shuffled))
        /\ UNCHANGED <<waiting, reported>>

\* a file is written: its modification time becomes the current time
ManyWrite(path) ==
    /\ UNCHANGED notWatch
    /\ wclock <= MaxManyWrites
    /\ wclock' = wclock + 1
    /\ wdisk' = [wdisk EXCEPT ![path] = wclock + 1]
    /\ UNCHANGED <<modTimes, recentItems, itemsToScan, itemsPerIteration,
                   rescanCounter, dirtyPath, waiting, reported>>

NextMany ==
    \/ ManyTick
    \/ \E path \in Touched : ManyWrite(path)

\* ------------------------------------------- SaveState and the file system

\* main runs PeriodicSave in a goroutine and SaveState once on shutdown
Savers == {"periodic", "shutdown"}

\* the bytes json.MarshalIndent returns in call k of saver sv: n blocks
Snapshot(sv, k, n) == [i \in 1..n |-> [saver |-> sv, call |-> k, block |-> i, of |-> n]]

InitFiles ==
    /\ fsTmp = 0
    /\ fsPath = 0
    /\ fsContent = EmptyMap
    /\ fsNext = 1
    /\ svPc = [sv \in Savers |-> "idle"]
    /\ svData = [sv \in Savers |-> <<>>]
    /\ svFd = [sv \in Savers |-> 0]
    /\ svCalls = 0

\* SaveState, lines 787-800: the state is copied and marshalled; the ticker
\* fires any number of times, the shutdown path runs once
SaveMarshal(sv, n) ==
    /\ UNCHANGED notFiles
    /\ svPc[sv] = "idle"
    /\ svCalls < MaxSaves
    /\ sv = "shutdown" => svFd[sv] = 0 /\ svData[sv] = <<>>
    /\ svCalls' = svCalls + 1
    /\ svData' = [svData EXCEPT ![sv] = Snapshot(sv, svCalls + 1, n)]
    /\ svPc' = [svPc EXCEPT ![sv] = "open"]
    /\ UNCHANGED <<fsTmp, fsPath, fsContent, fsNext, svFd>>

\* os.WriteFile(tmp, ...), the open with O_WRONLY|O_CREATE|O_TRUNC: the file
\* named tmp is emptied, or created when the name is free
SaveOpen(sv) ==
    /\ UNCHANGED notFiles
    /\ svPc[sv] = "open"
    /\ IF fsTmp = 0
       THEN /\ fsTmp' = fsNext
            /\ fsNext' = fsNext + 1
            /\ fsContent' = Put(fsContent, fsNext, <<>>)
            /\ svFd' = [svFd EXCEPT ![sv] = fsNext]
       ELSE /\ fsContent' = [fsContent EXCEPT ![fsTmp] = <<>>]
            /\ svFd' = [svFd EXCEPT ![sv] = fsTmp]
            /\ UNCHANGED <<fsTmp, fsNext>>
    /\ svPc' = [svPc EXCEPT ![sv] = "write"]
    /\ UNCHANGED <<fsPath, svData, svCalls>>

\* the bytes of data written at offset 0 of a file holding `content`
WriteAt0(content, data) ==
    data \o SubSeq(content, Len(data) + 1, Len(content))

\* os.WriteFile(tmp, ...), the write through the open descriptor
SaveWriteFile(sv) ==
    /\ UNCHANGED notFiles
    /\ svPc[sv] = "write"
    /\ fsContent' = [fsContent EXCEPT ![svFd[sv]] = WriteAt0(fsContent[svFd[sv]], svData[sv])]
    /\ svPc' = [svPc EXCEPT ![sv] = "rename"]
    /\ UNCHANGED <<fsTmp, fsPath, fsNext, svData, svFd, svCalls>>

\* os.Rename(tmp, path): the inode named tmp takes the name path (an inode
\* that lost its name lives on for the descriptors open on it); with no file
\* named tmp the call fails and SaveState logs a warning
SaveRename(sv) ==
    /\ UNCHANGED notFiles
    /\ svPc[sv] = "rename"
    /\ IF fsTmp = 0
       THEN UNCHANGED <<fsTmp, fsPath>>
       ELSE /\ fsPath' = fsTmp
            /\ fsTmp' = 0
    /\ svPc' = [svPc EXCEPT ![sv] = "idle"]
    /\ UNCHANGED <<fsContent, fsNext, svData, svFd, svCalls>>

SaveStep(sv) ==
    \/ \E n \in 1..MaxChunks : SaveMarshal(sv, n)
    \/ SaveOpen(sv)
    \/ SaveWriteFile(sv)
    \/ SaveRename(sv)

\* the periodic save and the shutdown save running at the same time
NextSaves == \E sv \in Savers : SaveStep(sv)

\* ---- SpecAlloc: the registry calls with the history of the register calls

NoAppIn == [space |-> "", dir |-> "", config |-> "", watch |-> ""]

InitAlloc ==
    /\ created = <<>>
    /\ areq = NoAppIn

AllocRegister(req) ==
    /\ UNCHANGED notAlloc
    /\ CanRegister(req)
    /\ register(req)
    /\ ret' = IF Known(req.space) THEN "existed" ELSE "created"
    /\ created' = IF Known(req.space) THEN created ELSE Append(created, req.space)
    /\ areq' = req
    /\ surviving' = surviving \cup {req.space}
    /\ UNCHANGED logClock

AllocDeregister(space) ==
    /\ UNCHANGED notAlloc
    /\ deregister(space)
    /\ ret' = IF Known(space) THEN "true" ELSE "false"
    /\ surviving' = surviving \ {space}
    /\ UNCHANGED <<nextPort1, logClock, allocVars>>

AllocAppendLogs(space, n) ==
    /\ UNCHANGED notAlloc
    /\ logClock + n <= MaxLogEntries
    /\ appendLogs(space, [i \in 1..n |-> logClock + i])
    /\ ret' = IF Known(space) THEN "true" ELSE "false"
    /\ logClock' = logClock + n
    /\ UNCHANGED <<lastRegistered, nextPort1, surviving, allocVars>>

AllocUpdateHealth(space, status, portActive) ==
    /\ UNCHANGED notAlloc
    /\ updateHealth(space, status, portActive)
    /\ ret' = IF Known(space) THEN "true" ELSE "false"
    /\ UNCHANGED <<lastRegistered, nextPort1, surviving, logClock, allocVars>>

NextAlloc ==
    \/ \E req \in AppIn : AllocRegister(req)
    \/ \E sp \in Spaces : AllocDeregister(sp)
    \/ \E sp \in Spaces, n \in 1..MaxLogEntries : AllocAppendLogs(sp, n)
    \/ \E sp \in Spaces : AllocUpdateHealth(sp, "healthy", 0)

\* ---- SpecLogs: appendLogs calls that fill the ring beyond maxRecentLogs

\* POST /logs bodies carry this many entries
LogBatches == {50, 51}
AppInLogs == { [space |-> sp, dir |-> "/w/one", config |-> "cheetah", watch |-> "*.go"] :
                  sp \in Spaces }

InitLogs == appended = [sp \in Spaces |-> <<>>]

LogsRegister(req) ==
    /\ UNCHANGED notLogs
    /\ CanRegister(req)
    /\ register(req)
    /\ ret' = IF Known(req.space) THEN "existed" ELSE "created"
    /\ appended' = IF Known(req.space) THEN appended
                   ELSE [appended EXCEPT ![req.space] = <<>>]
    /\ surviving' = surviving \cup {req.space}
    /\ UNCHANGED logClock

LogsDeregister(space) ==
    /\ UNCHANGED notLogs
    /\ Known(space)
    /\ deregister(space)
    /\ ret' = "true"
    /\ appended' = [appended EXCEPT ![space] = <<>>]
    /\ surviving' = surviving \ {space}
    /\ UNCHANGED <<nextPort1, logClock>>

\* one POST /logs with n entries stamped logClock+1 .. logClock+n
LogsAppend(space, n) ==
    /\ UNCHANGED notLogs
    /\ logClock + n <= MaxLogTotal
    /\ appendLogs(space, [i \in 1..n |-> logClock + i])
    /\ ret' = IF Known(space) THEN "true" ELSE "false"
    /\ appended' = IF Known(space)
                   THEN [appended EXCEPT ![space] = @ \o [i \in 1..n |-> logClock + i]]
                   ELSE appended
    /\ logClock' = logClock + n
    /\ UNCHANGED <<lastRegistered, nextPort1, surviving>>

NextLogs ==
    \/ \E req \in AppInLogs : LogsRegister(req)
    \/ \E sp \in Spaces : LogsDeregister(sp)
    \/ \E sp \in Spaces, n \in LogBatches : LogsAppend(sp, n)

\* ---- SpecHealth: a supervisor whose reporter is Client.HealthUpdate

\* the daemon runs with APP_PORT = BluePort and the supervisor of space "a"
\* has registered, created its port manager from the answer and started blue
SupervisedSpace == "a"
InitSupervised ==
    /\ apps = Put(EmptyMap, SupervisedSpace,
                  NewApp([space |-> SupervisedSpace, dir |-> "/w/one",
                          config |-> "cheetah", watch |-> "*.go"], BluePort))
    /\ lastRegistered = SupervisedSpace
    /\ nextPort1 = BluePort + 2
    /\ ret = "created"
    /\ surviving = {SupervisedSpace}
    /\ logClock = 0

\* the steps of Swap that do not call the reporter
HealthSwap(c) ==
    /\ pc[c] # "reportCall"
    /\ Swap(c)

\* ReportHealth, line 91 with the reporter of DefaultConfig: HealthUpdate
\* sends PUT /health and drops the result of http.DefaultClient.Do; when the
\* request arrives, handleHealthPut calls updateHealth
HealthReport(c, arrives) ==
    /\ UNCHANGED notPortReg
    /\ pc[c] = "reportCall"
    /\ reports' = [reports EXCEPT ![c] = Append(reports[c], <<"healthy", rport[c]>>)]
    /\ pc' = [pc EXCEPT ![c] = "stopOld"]
    /\ IF arrives
       THEN updateHealth(SupervisedSpace, "healthy", rport[c])
       ELSE UNCHANGED apps
    /\ UNCHANGED <<active, inactive, old, tries, rport, running, stopped,
                   result, pre, startOk, ok200, activeSet, swaps>>
    /\ UNCHANGED <<lastRegistered, nextPort1, ret, surviving, logClock>>

NextHealth ==
    \/ HealthSwap("rebuild")
    \/ \E arrives \in BOOLEAN : HealthReport("rebuild", arrives)

\* ---- SpecReport: SetActive and ReportHealth called from two goroutines

InitReport ==
    /\ activeHist = <<BluePort>>
    /\ rstatus = [c \in Callers |-> ""]
    /\ rver = [c \in Callers |-> 0]
    /\ delivered = <<>>

\* what the calls of SpecReport leave alone in the port manager's caller
portRest == <<inactive, old, tries, running, reports, stopped, result, pre,
              startOk, ok200, activeSet, swaps>>

\* Manager.SetActive(p), whole under the mutex
ReportSetActive(c, p) ==
    /\ UNCHANGED notReport
    /\ pc[c] = "idle"
    /\ Len(activeHist) <= MaxSetActives
    /\ SetActive(p)
    /\ activeHist' = IF p = active THEN activeHist ELSE Append(activeHist, p)
    /\ UNCHANGED <<pc, rport, portRest, rstatus, rver, delivered>>

\* ReportHealth(status), lines 88-90: port := m.active under the mutex
ReportHealthRead(c, status) ==
    /\ UNCHANGED notReport
    /\ pc[c] = "idle"
    /\ Len(delivered) + Cardinality({ d \in Callers : pc[d] = "reportCall" }) < MaxReports
    /\ rport' = [rport EXCEPT ![c] = active]
    /\ rstatus' = [rstatus EXCEPT ![c] = status]
    /\ rver' = [rver EXCEPT ![c] = Len(activeHist)]
    /\ pc' = [pc EXCEPT ![c] = "reportCall"]
    /\ UNCHANGED <<active, portRest, activeHist, delivered>>

\* ReportHealth, line 91: m.config.ReportHealth(status, port) after Unlock
ReportHealthCall(c) ==
    /\ UNCHANGED notReport
    /\ pc[c] = "reportCall"
    /\ delivered' = Append(delivered,
                           [status |-> rstatus[c], port |-> rport[c], ver |-> rver[c]])
    /\ pc' = [pc EXCEPT ![c] = "idle"]
    /\ UNCHANGED <<active, rport, portRest, activeHist, rstatus, rver>>

NextReport ==
    \/ \E c \in Callers, p \in {BluePort, GreenPort} : ReportSetActive(c, p)
    \/ \E c \in Callers, st \in {"unknown", "healthy"} : ReportHealthRead(c, st)
    \/ \E c \in Callers : ReportHealthCall(c)

\* ---------------------------------------------------------- specifications

InitRest == InitPort /\ InitState /\ InitEvents /\ InitPg /\ InitOAuth
              /\ InitProxy /\ InitFiles /\ InitAlloc /\ InitDispatch /\ InitLogs
              /\ InitReport /\ InitRebase /\ InitSnap
              /\ InitEnsure /\ InitFollow /\ InitLocks

InitCore == InitRest /\ InitWatch

InitOthers == InitCore /\ InitRun /\ InitDebounce

InitDaemon == InitOthers /\ InitReg

Init == InitDaemon /\ InitConfig /\ InitHash

\* The supervisor of src/run.go: the watcher goroutine is the only caller of
\* rebuild, so Swap calls never overlap.
NextSwap == Swap("rebuild")

SpecSwap == Init /\ [][NextSwap]_vars

\* The supervisor of part_011: rebuild runs on the watcher's goroutine and
\* envReload on the goroutine of watchEnvEvents; one Swap call of each
ConcurrentSwap(c) ==
    /\ pc[c] # "idle" \/ result[c] = "none"
    /\ Swap(c)

NextSwapRace == \E c \in Callers : ConcurrentSwap(c)

SpecSwapRace == Init /\ [][NextSwapRace]_vars

\* SetActive and ReportHealth calls of two goroutines on one manager
SpecReport == Init /\ [][NextReport]_vars

\* The watcher goroutine, which keeps ticking, and edits of the watched files
SpecWatch == Init /\ [][NextWatch]_vars

\* The watcher over a directory of more files than the recent list holds,
\* started in any state of the list that earlier changes may have left
InitManyCalls ==
    InitRest /\ InitReg /\ InitConfig /\ InitHash /\ InitRun /\ InitDebounce
        /\ InitMany
SpecRecent == InitManyCalls /\ [][NextMany]_vars

\* the goroutine of Start never stops iterating
SpecWatchLoop == Init /\ [][NextWatchLoop]_vars /\ WF_vars(LoopTick)

\* Sequential swaps of a supervisor that reports to the registry over HTTP
InitHealth == InitOthers /\ InitSupervised /\ InitConfig /\ InitHash
SpecHealth == InitHealth /\ [][NextHealth]_vars

\* The registry calls, each atomic under Server.mu
SpecReg == Init /\ [][NextReg]_vars

\* The registry calls of a daemon started without a state file, with the
\* history of its register calls
SpecAlloc == Init /\ [][NextAlloc]_vars

\* The registry of a daemon that saves its state, restarts and probes
SpecState == Init /\ [][NextState]_vars

\* Registry calls, whole SaveState calls and a restart of the daemon
SpecRoundTrip == Init /\ [][NextRoundTrip]_vars

\* SaveState interleaved with the calls that change the registry
SpecSnapshot == Init /\ [][NextSnapshot]_vars

\* The same calls with restarts that change the port base
SpecRebase == Init /\ [][NextRebase]_vars

\* The periodic and the shutdown SaveState on the files of the state dir
SpecSaves == Init /\ [][NextSaves]_vars

\* Concurrent request handlers and event-stream clients
SpecEvents == Init /\ [][NextEvents]_vars

\* The subscriber set under a stream of broadcasts
SpecBroadcast == Init /\ [][NextBroadcast]_vars

\* Template calls of one supervisor against the PostgreSQL server
SpecTemplate == Init /\ [][NextTemplate]_vars

\* Two supervisors calling Ensure, every migration succeeding
SpecEnsure == Init /\ [][NextEnsure]_vars

\* OAuth callbacks arriving while apps register, deregister and start flows
SpecOAuth == Init /\ [][NextOAuth]_vars

\* Requests proxied to the guests while apps register and deregister
SpecProxy == Init /\ [][NextProxy]_vars

\* targetForRequest on any host while apps register, swap and deregister
SpecRoute == Init /\ [][NextRoute]_vars

\* The registry under POST /logs bodies that overflow the ring
SpecLogs == Init /\ [][NextLogs]_vars

\* One Load call on any combination of the five sources
InitLoadCall == InitDaemon /\ InitLoad /\ InitHash
SpecConfig == InitLoadCall /\ [][NextConfig]_vars

\* Two Hash calls on a migration directory, with at most one edit in between
InitHashCalls == InitDaemon /\ InitConfig /\ InitHashDir
SpecHash == InitHashCalls /\ [][NextHash]_vars

\* Requests of any host, path and query through the middleware
SpecDispatch == Init /\ [][NextDispatch]_vars

\* The supervisor's Run from start(blue) to its health reports, for every
\* value of Config.CheckRetries
InitRunCalls ==
    InitCore /\ InitReg /\ InitConfig /\ InitHash /\ InitDebounce /\ InitRunAny
SpecRun == InitRunCalls /\ [][NextRun]_vars

\* Watcher callbacks of the supervisor and of the dev proxy over time
InitDebounceCalls ==
    InitCore /\ InitReg /\ InitConfig /\ InitHash /\ InitRun /\ InitDebounceAny
SpecDebounce == InitDebounceCalls /\ [][NextDebounce]_vars

\* The daemon's handlers, SaveState and the startup probe on the two mutexes
SpecLocks == Init /\ [][NextLocks]_vars

\* OAuth callbacks whose redirects are followed
SpecFollow == Init /\ [][NextFollow]_vars

\* ---------------------------------------------------- claims: port manager

Range(q) == { q[i] : i \in 1..Len(q) }

\* the port that was inactive when caller c called Swap
NewPortOf(c) == IF pre[c] = GreenPort THEN BluePort ELSE GreenPort

\* C1: across any Swap the port returned by Active() has a guest that was
\* started and not stopped; active moves to a port only after a health check
\* on that port returned 200, and stop(old) happens only after active moved.
C1_ActiveAlwaysServed ==
    /\ [](Active \in running)
    /\ [][ /\ (active' # active =>
                 \E c \in Callers : ok200[c] = active' /\ inactive[c] = active')
           /\ \A c \in Callers :
                 (pc[c] = "stopOld" /\ pc'[c] = "idle") =>
                     (activeSet[c] /\ Active # old[c] /\ old[c] \notin running')
         ]_vars

C1_Witness ==
    /\ result["rebuild"] = "true"
    /\ active = GreenPort
    /\ running = {GreenPort}
    /\ ok200["rebuild"] = GreenPort

\* C2: after Swap returns true, Active() is the port that was inactive before
\* the call, the reporter saw ("healthy", new active) with no later report
\* carrying the old port, and stop was invoked exactly once, with the old port.
C2_SuccessfulSwap ==
    \A c \in Callers :
        result[c] = "true" =>
            /\ Active = NewPortOf(c)
            /\ \E i \in 1..Len(reports[c]) :
                  /\ reports[c][i] = <<"healthy", Active>>
                  /\ \A j \in i..Len(reports[c]) : reports[c][j][2] # pre[c]
            /\ stopped[c] = <<pre[c]>>

C2_Witness ==
    /\ result["rebuild"] = "true"
    /\ swaps >= 2
    /\ active = BluePort
    /\ reports["rebuild"] = << <<"healthy", BluePort>> >>
    /\ stopped["rebuild"] = <<GreenPort>>

\* C3: after Swap returns false, Active() equals its value before the call;
\* stop(new) was invoked iff start succeeded and the health check failed (a
\* start failure invokes no stop at all); stop(old) was never invoked; the
\* reporter was never called with "healthy".
C3_FailedSwap ==
    \A c \in Callers :
        result[c] = "false" =>
            /\ Active = pre[c]
            /\ (NewPortOf(c) \in Range(stopped[c]))
                   <=> (startOk[c] /\ ok200[c] = NoPort)
            /\ (~startOk[c] => stopped[c] = <<>>)
            /\ (startOk[c] => stopped[c] = <<NewPortOf(c)>>)
            /\ pre[c] \notin Range(stopped[c])
            /\ \A i \in 1..Len(reports[c]) : reports[c][i][1] # "healthy"

C3_Witness ==
    /\ result["rebuild"] = "false"
    /\ startOk["rebuild"]
    /\ tries["rebuild"] = CheckRetries
    /\ stopped["rebuild"] = <<NewPortOf("rebuild")>>
    /\ active = pre["rebuild"]

\* C4: in every execution of Swap the reporter call carrying "healthy" and the
\* call stop(old) both occur strictly after SetActive(new) has taken effect;
\* neither happens while Active() still returns the old port.
C4_ReportAndStopAfterSetActive ==
    [][ \A c \in Callers :
          /\ (reports'[c] # reports[c] /\ reports'[c] # <<>>) =>
                 (activeSet[c] /\ Active # old[c] /\ Active = inactive[c])
          /\ (pc[c] = "stopOld" /\ stopped'[c] # stopped[c]) =>
                 (activeSet[c] /\ Active # old[c] /\ Active = inactive[c])
      ]_vars

C4_Witness ==
    /\ pc["rebuild"] = "stopOld"
    /\ activeSet["rebuild"]
    /\ reports["rebuild"] = << <<"healthy", inactive["rebuild"]>> >>
    /\ active = inactive["rebuild"]
    /\ old["rebuild"] \in running

\* -------------------------------------------------------- claims: registry

PortPair(app) == {app.blue, app.green}

\* C5: in every state reachable by register, deregister, appendLogs and
\* updateHealth (with any port value a client may send), every app's active
\* port equals that app's blue port or its green port.
C5_ActiveIsBlueOrGreen ==
    \A sp \in DOMAIN apps : apps[sp].active \in PortPair(apps[sp])

\* C6: after any sequence of register and deregister calls, list() returns
\* exactly one app per surviving space and no port belongs to the pairs of two
\* different apps.
C6_ListMatchesSurvivors ==
    /\ { app.space : app \in list } = surviving
    /\ Cardinality(list) = Cardinality(surviving)
    /\ \A sp \in surviving : Cardinality({ app \in list : app.space = sp }) = 1
    /\ \A a1, a2 \in list :
          a1.space # a2.space => PortPair(a1) \cap PortPair(a2) = {}
    /\ \A app \in list : Cardinality(PortPair(app)) = 2

C6_Witness ==
    /\ surviving = Spaces
    /\ Cardinality(list) = 2
    /\ nextPort1 = BluePortStart + 2 * MaxAllocs
    /\ ret = "created"

\* C7 as stated: in every reachable registry state, after any sequence of
\* register, deregister and LoadState, a non-empty registry has a
\* last_registered that names a present app, so activeTarget() succeeds.
C7_LastRegisteredWhenNonEmpty ==
    DOMAIN apps # {} => (lastRegistered \in DOMAIN apps /\ activeTarget[3])

\* C7 as amended: once a register call has returned since the daemon started,
\* a non-empty registry has a last_registered that names a present app and
\* activeTarget() succeeds; LoadState at start leaves last_registered empty.
C7_LastRegisteredAfterRegister ==
    /\ []((DOMAIN apps # {} /\ sinceStart) =>
             /\ lastRegistered \in DOMAIN apps
             /\ activeTarget = <<lastRegistered, apps[lastRegistered].active, TRUE>>)
    /\ [][restarts' # restarts => lastRegistered' = ""]_vars

C7_Witness ==
    /\ restarts = 1
    /\ sinceStart
    /\ probePc = "loop"
    /\ Cardinality(DOMAIN apps) = 1
    /\ lastRegistered \in DOMAIN apps
    /\ \E i \in 1..Len(probeApps) : ~probeApps[i].inMap

\* ---------------------------------------------------------- claims: events

\* what client c has been sent so far: written to its response or buffered
Stream(c) == crecv[c] \o (IF c \in DOMAIN queues THEN queues[c] ELSE <<>>)

Tags(q) == { q[i].tag : i \in 1..Len(q) }

\* C8: for any two mutations of the same space, every subscriber that
\* receives both events receives them in the order in which the mutations
\* were applied to the registry.
C8_EventsInMutationOrder ==
    \A c \in Clients :
        \A i, j \in 1..Len(Stream(c)) :
            (i < j /\ Stream(c)[i].space = Stream(c)[j].space)
                => Stream(c)[i].tag < Stream(c)[j].tag

\* C9: broadcast completes without waiting for any subscriber; a subscriber
\* whose queue already holds 16 messages loses the new message, every
\* subscriber with room receives it, and no queue ever exceeds its bound.
C9_BroadcastNeverBlocks ==
    /\ [](\A ch \in DOMAIN queues : Len(queues[ch]) <= SubscriberQueueCap)
    /\ [](mutCount < MaxBroadcasts => ENABLED Broadcast)
    /\ [][ mutCount' # mutCount =>
             /\ DOMAIN queues' = DOMAIN queues
             /\ \A ch \in DOMAIN queues :
                   IF Len(queues[ch]) = SubscriberQueueCap
                   THEN queues'[ch] = queues[ch]
                   ELSE /\ Len(queues'[ch]) = Len(queues[ch]) + 1
                        /\ SubSeq(queues'[ch], 1, Len(queues[ch])) = queues[ch]
                        /\ queues'[ch][Len(queues'[ch])].tag = mutCount'
         ]_vars

C9_Witness ==
    \E slow, fast \in DOMAIN queues :
        /\ slow # fast
        /\ overflowed[slow] /\ ~overflowed[fast]
        /\ Len(queues[slow]) = SubscriberQueueCap
        /\ queues[slow][SubscriberQueueCap].tag < mutCount
        /\ queues[fast] # <<>>
        /\ queues[fast][Len(queues[fast])].tag = mutCount

\* C10: a client of the event stream receives, after the init snapshot and as
\* long as its queue does not overflow, an event for every mutation applied
\* after the snapshot was taken.
C10_NoMutationMissedAfterInit ==
    \A c \in Clients :
        (cpc[c] = "stream" /\ ~overflowed[c]) =>
            \A t \in sent : t > csnap[c].at => t \in Tags(Stream(c))

\* ------------------------------------------------------------- claims: pg

\* C11: for every fingerprint with no Template call in progress, the database
\* t_<fingerprint> exists if and only if a migration run for that fingerprint
\* has completed successfully (a failed migration drops the database, so the
\* next call re-creates it instead of returning the existing name).
C11_TemplateExistsIffMigrated ==
    \A f \in Fingerprints :
        (\A s \in Supervisors : tpc[s] = "idle" \/ tfp[s] # f)
            => (f \in pgExists <=> f \in migratedOk)

\* ---------------------------------------------------------- claims: OAuth

\* the left side of a split state names a registered app
NamesApp(left) == Len(left) = 1 /\ left[1] \in DOMAIN apps

\* C12: a state -> space entry routes at most one callback: the callback that
\* finds the entry is redirected to the recorded space and removes the entry,
\* so a later callback with the same state is routed by the fallback rules.
C12_StateEntryRoutesOnce ==
    [][ (bounces' # bounces /\ breq'.state \in DOMAIN oauthStates) =>
            /\ bresp'.status = StatusTemporaryRedirect
            /\ bresp'.sub = <<oauthStates[breq'.state]>>
            /\ breq'.state \notin DOMAIN oauthStates'
      ]_vars

\* C13: for a state "space|nonce" whose left side names a registered app the
\* answer is 307 to that space's subdomain on the dashboard port, same path,
\* same query except state = nonce; with no pipe or an unregistered left
\* side the redirect goes to the dashboard host with the state unchanged.
C13_SplitStateRouting ==
    [][ bounces' # bounces =>
            LET cut == Cut(breq'.state)
            IN /\ bresp'.status = StatusTemporaryRedirect
               /\ bresp'.port = DashboardPort
               /\ bresp'.path = breq'.path
               /\ bresp'.code = breq'.code
               /\ IF cut[3] /\ NamesApp(cut[1])
                  THEN bresp'.sub = cut[1] /\ bresp'.state = cut[2]
                  ELSE bresp'.sub = <<>> /\ bresp'.state = breq'.state
      ]_vars

\* C14: the target space is the map entry if there is one, otherwise the left
\* side of a "space|nonce" state, otherwise the last-registered app; path and
\* other parameters are kept; with nothing resolved the answer is 502.
C14_ResolutionOrder ==
    [][ bounces' # bounces =>
            LET cut == Cut(breq'.state)
                target ==
                    IF breq'.state \in DOMAIN oauthStates
                    THEN <<oauthStates[breq'.state]>>
                    ELSE IF cut[3] /\ NamesApp(cut[1]) THEN cut[1]
                    ELSE IF lastRegistered # "" THEN <<lastRegistered>>
                    ELSE <<>>
            IN IF target = <<>>
               THEN bresp'.status = StatusBadGateway
               ELSE /\ bresp'.status = StatusTemporaryRedirect
                    /\ bresp'.sub = target
                    /\ bresp'.path = breq'.path
                    /\ bresp'.code = breq'.code
      ]_vars

\* ---------------------------------------------------------- claims: proxy

Occurrences(q, tok) == { i \in 1..Len(q) : q[i] = tok }

\* the guest's response went through ModifyResponse
Served == proxied /\ presp.status = StatusOK

\* presp.body is pup.body with the closing body tag at position i replaced by
\* the script tag, a newline and the closing body tag
InjectedAt(i) ==
    /\ Len(presp.body) = Len(pup.body) + 2
    /\ SubSeq(presp.body, 1, i - 1) = SubSeq(pup.body, 1, i - 1)
    /\ presp.body[i] = "<script>"
    /\ presp.body[i + 1] = "\n"
    /\ presp.body[i + 2] = "</body>"
    /\ SubSeq(presp.body, i + 3, Len(presp.body)) = SubSeq(pup.body, i + 1, Len(pup.body))
    /\ presp.contentLength = ByteLen(presp.body)
    /\ presp.ct = pup.ct

Forwarded ==
    /\ presp.body = pup.body
    /\ presp.contentLength = pup.contentLength
    /\ presp.ct = pup.ct

Routed == <<phost, ptarget, proxied>>' # <<phost, ptarget, proxied>>

\* the subdomain of a host: its first label, when it has two or more labels
\* and the last one is localhost
SubdomainOf(host) ==
    IF Len(host.labels) >= 2 /\ host.labels[Len(host.labels)] = "localhost"
    THEN Head(host.labels) ELSE ""

LastRegisteredTarget ==
    IF lastRegistered # "" /\ lastRegistered \in DOMAIN apps
    THEN <<lastRegistered, apps[lastRegistered].active, TRUE>>
    ELSE <<"", 0, FALSE>>

\* C20 as stated: targetForRequest(host) returns the current active port of
\* the app named by the subdomain when the subdomain is neither "cheetah" nor
\* "spacecat" and names a registered app; otherwise the (space, active port)
\* of last_registered, and not found only without a last_registered app.
C20_DashboardNamesFallBack ==
    [][ Routed =>
            LET sub == SubdomainOf(phost')
            IN IF sub \notin {"", "cheetah", "spacecat"} /\ sub \in DOMAIN apps
               THEN ptarget' = <<sub, apps[sub].active, TRUE>>
               ELSE ptarget' = LastRegisteredTarget
      ]_vars

\* C20 amended: "cheetah" is the only dashboard name.
C20_TargetForRequest ==
    [][ Routed =>
            LET sub == SubdomainOf(phost')
            IN IF sub \notin {"", "cheetah"} /\ sub \in DOMAIN apps
               THEN ptarget' = <<sub, apps[sub].active, TRUE>>
               ELSE ptarget' = LastRegisteredTarget
      ]_vars

C20_Witness ==
    /\ proxied
    /\ SubdomainOf(phost) = "cheetah"
    /\ "cheetah" \in DOMAIN apps
    /\ lastRegistered \in DOMAIN apps \ {"cheetah"}
    /\ ptarget = <<lastRegistered, apps[lastRegistered].green, TRUE>>

\* ----------------------------------------------------- claims: state file

PortsOf(app) == <<app.blue, app.green, app.active>>

CompleteSnapshot(content) ==
    /\ content # <<>>
    /\ content = Snapshot(content[1].saver, content[1].call, content[1].of)

\* C17: at every instant the state file is absent or holds one complete
\* snapshot produced by a single SaveState call, also when the periodic save
\* and the shutdown save run at the same time.
C17_StateFileComplete ==
    fsPath = 0 \/ CompleteSnapshot(fsContent[fsPath])

\* ------------------------------------------------ claims: port allocation

\* the position in `created` of the register call that made the present app
CreationIndex(sp) ==
    CHOOSE k \in 1..Len(created) :
        created[k] = sp /\ \A j \in 1..Len(created) : created[j] = sp => j <= k

\* C18: in a daemon started with base B and no loaded state the k-th newly
\* registered space (k = 0, 1, ...) gets blue = B + 2k, green = blue + 1,
\* active = blue, health "unknown", an empty log ring and becomes
\* last_registered; next_blue_port never decreases.
C18_KthAllocation ==
    /\ [](\A sp \in DOMAIN apps :
             /\ apps[sp].blue = BluePortStart + 2 * (CreationIndex(sp) - 1)
             /\ apps[sp].green = apps[sp].blue + 1)
    /\ [][ Len(created') > Len(created) =>
             LET sp == created'[Len(created')]
             IN /\ apps'[sp].space = sp
                /\ apps'[sp].blue = BluePortStart + 2 * Len(created)
                /\ apps'[sp].active = apps'[sp].blue
                /\ apps'[sp].status = "unknown"
                /\ apps'[sp].logs = <<>>
                /\ lastRegistered' = sp
         ]_vars
    /\ [][nextPort1' >= nextPort1]_vars

C18_Witness ==
    /\ Len(created) = 3
    /\ created[1] = created[3]
    /\ created[1] \in DOMAIN apps
    /\ apps[created[1]].blue = BluePortStart + 4
    /\ lastRegistered = created[3]

\* C19: registering a space that exists returns existed = true, replaces the
\* app's working directory and watch configuration by those of the request,
\* sets last_registered to the space and leaves its ports, database URL,
\* health, logs, every other app and next_blue_port unchanged.
C19_ReRegisterFrame ==
    [][ (ret' = "existed" /\ <<areq, ret>>' # <<areq, ret>>) =>
            LET sp == areq'.space
            IN /\ sp \in DOMAIN apps
               /\ DOMAIN apps' = DOMAIN apps
               /\ apps'[sp].dir = areq'.dir
               /\ apps'[sp].watch = areq'.watch
               /\ lastRegistered' = sp
               /\ PortsOf(apps'[sp]) = PortsOf(apps[sp])
               /\ apps'[sp].databaseURL = apps[sp].databaseURL
               /\ apps'[sp].status = apps[sp].status
               /\ apps'[sp].logs = apps[sp].logs
               /\ \A other \in DOMAIN apps \ {sp} : apps'[other] = apps[other]
               /\ nextPort1' = nextPort1
      ]_vars

\* --------------------------------------------------- claims: the middleware

\* the path contains "/callback"
HasCallback(path) == \E i \in 1..Len(path) : path[i] = "callback"

\* C21: every request goes to exactly one handler: to the OAuth redistributor
\* iff the subdomain is empty, the path contains "/callback" and the query has
\* both code and state; otherwise to the proxy when the subdomain is not the
\* dashboard name; otherwise to the dashboard router.
C21_DispatchByHeuristic ==
    dhandler # "" =>
        LET sub == extractSubdomain(dreq.host)
        IN dhandler =
              IF sub = "" /\ HasCallback(dreq.path) /\ dreq.code /\ dreq.state
              THEN "handleOAuthBounce"
              ELSE IF sub # "cheetah" THEN "handleProxy" ELSE "next"

\* ------------------------------------------------------ claims: the log ring

\* the last n entries of q
LastN(q, n) == SubSeq(q, Len(q) - n + 1, Len(q))
Min(x, y) == IF x <= y THEN x ELSE y

\* the ring of every registered space is the tail of what was appended to it
RingIsTail ==
    \A sp \in DOMAIN apps :
        /\ Len(apps[sp].logs) <= maxRecentLogs
        /\ apps[sp].logs = LastN(appended[sp], Min(maxRecentLogs, Len(appended[sp])))

\* an appendLogs call on an unknown space returns false and changes nothing
UnknownAppendIsNoop ==
    (logClock' # logClock /\ ret' = "false") =>
        /\ apps' = apps
        /\ lastRegistered' = lastRegistered
        /\ nextPort1' = nextPort1

\* C22: after any sequence of appendLogs calls the ring of a registered space
\* holds at most 100 entries, the last min(100, total appended) in append
\* order; appendLogs on an unknown space returns false and changes nothing.
C22_RingKeepsLastHundred ==
    /\ []RingIsTail
    /\ [][UnknownAppendIsNoop]_vars

C22_Witness ==
    \E sp \in DOMAIN apps :
        /\ Len(appended[sp]) > maxRecentLogs
        /\ Len(apps[sp].logs) = maxRecentLogs
        /\ apps[sp].logs[1] = appended[sp][Len(appended[sp]) - maxRecentLogs + 1]

\* -------------------------------------------------------- claims: config.Load

\* what each source supplies, lowest priority first, as the spec lists them
ExampleOf(inp) == IF inp.example = NoData THEN EmptyMap ELSE ParseExample(inp.example)
EnvrcOf(inp) == IF inp.envrc = NoData THEN EmptyMap ELSE ParseExample(inp.envrc)

SuppliedStated(inp) ==
    << [k \in DOMAIN ExampleOf(inp) \cap DOMAIN inp.defaults.m |-> ExampleOf(inp)[k]],
       [k \in { x \in DOMAIN inp.defaults.m : inp.defaults.m[x] # <<>> }
           |-> inp.defaults.m[k]],
       inp.proxyEnv.m,
       EnvrcOf(inp),
       [k \in { x \in EnvKeys : inp.getenv[x] # <<>> } |-> inp.getenv[k]] >>

\* the same with what the code adds: without defaults every key of
\* .envrc.example counts, an empty default declares a key that
\* .envrc.example does not supply, and the process environment counts only
\* for the keys a file or map declares
SuppliedAmended(inp) ==
    LET ex == [k \in { x \in DOMAIN ExampleOf(inp) :
                          inp.defaults.nil \/ x \in DOMAIN inp.defaults.m }
                  |-> ExampleOf(inp)[k]]
        df == [k \in { x \in DOMAIN inp.defaults.m :
                          inp.defaults.m[x] # <<>> \/ x \notin DOMAIN ex }
                  |-> inp.defaults.m[k]]
        declared == DOMAIN ex \cup DOMAIN df \cup DOMAIN inp.proxyEnv.m
                    \cup DOMAIN EnvrcOf(inp)
    IN << ex, df, inp.proxyEnv.m, EnvrcOf(inp),
          [k \in { x \in declared : inp.getenv[x] # <<>> } |-> inp.getenv[k]] >>

\* the value of the highest-priority source that supplies k; a key that no
\* source supplies is absent
ByPriority(sources, env) ==
    \A k \in EnvKeys :
        LET having == { i \in 1..Len(sources) : k \in DOMAIN sources[i] }
        IN IF having = {} THEN k \notin DOMAIN env
           ELSE LET top == CHOOSE i \in having : \A j \in having : j <= i
                IN k \in DOMAIN env /\ env[k] = sources[top][k]

\* C23: for every key the value returned by Load is the value of the
\* highest-priority source that supplies it, in the order .envrc.example
\* (only keys present in defaults) < defaults (non-empty values only) <
\* proxy env < .envrc < process environment; a key supplied by no source is
\* absent from the result.
C23_HighestSourceWins ==
    loadOut # NoOut => ByPriority(SuppliedStated(loadIn), loadOut.env)

\* C23 as the code has it: .envrc.example is restricted to the keys of the
\* defaults only when defaults are given, an empty default declares the key
\* with the empty value unless .envrc.example supplies it, and the process
\* environment overrides only keys that one of the other sources declares.
C23_HighestDeclaredSourceWins ==
    loadOut # NoOut => ByPriority(SuppliedAmended(loadIn), loadOut.env)

\* all five sources name PORT and the process environment wins
C23_Witness ==
    /\ loadOut # NoOut
    /\ "PORT" \in DOMAIN ExampleOf(loadIn) \cap DOMAIN EnvrcOf(loadIn)
    /\ "PORT" \in DOMAIN loadIn.defaults.m \cap DOMAIN loadIn.proxyEnv.m
    /\ loadIn.getenv["PORT"] = <<"os">>
    /\ loadOut.env["PORT"] = <<"os">>
    /\ "SECRET" \in DOMAIN loadOut.env /\ loadOut.env["SECRET"] = <<"rc">>

\* ------------------------------------------------------------ claims: Hash

\* C24: Hash is deterministic, repeated calls on unchanged migrations return
\* the same 12-character fingerprint; renaming one migration file or changing
\* one byte of one file changes the hashed byte stream (name bytes, then file
\* bytes, files in lexicographic order) and hence the fingerprint.
C24_FingerprintFollowsEdits ==
    hashPc = "done" =>
        /\ hret[1].len = FingerprintLen /\ hret[2].len = FingerprintLen
        /\ hop = "none" => hstream[2] = hstream[1] /\ hret[2] = hret[1]
        /\ hop \in {"renamed", "written"} =>
               hstream[2] # hstream[1] /\ hret[2] # hret[1]

\* ------------------------------------------------- claims: concurrent swaps

\* a stop call of this step is on a port other than the one Active() returns
StopSparesActive ==
    \A c \in Callers :
        stopped'[c] # stopped[c] => stopped'[c][Len(stopped'[c])] # active

\* both Swap calls have returned
BothReturned == \A c \in Callers : pc[c] = "idle" /\ result[c] # "none"

\* C25: when a rebuild and an env reload run Swap concurrently on one port
\* manager, stop is never invoked on the port Active() returns at that
\* moment, and once both calls have returned the active port has a running
\* guest.
C25_ConcurrentSwapsKeepActive ==
    /\ [][StopSparesActive]_vars
    /\ [](BothReturned => active \in running)

\* --------------------------------------- claims: the registry's active port

\* the port the registry records as active has a running guest
RecordedActiveRuns == \A sp \in DOMAIN apps : apps[sp].active \in running

\* a stop of the old port in this step finds the registry on another port
StopAfterRegistryUpdate ==
    \A c \in Callers :
        (stopped'[c] # stopped[c] /\ result'[c] = "true") =>
            \A sp \in DOMAIN apps : apps[sp].active # stopped'[c][Len(stopped'[c])]

\* C26: the port the registry records as a space's active port always has a
\* running guest: the supervisor stops the old port only after the registry
\* has applied the health update carrying the new active port, also when
\* that update request fails or is lost.
C26_RecordedActiveAlwaysRuns ==
    /\ []RecordedActiveRuns
    /\ [][StopAfterRegistryUpdate]_vars

\* ------------------------------------------------- claims: ReportHealth order

\* C27: with SetActive and ReportHealth called concurrently, every pair given
\* to the reporter carries the port that was active when its ReportHealth
\* call was ordered, and the reporter never receives a pair carrying an older
\* active port after a pair carrying a newer one.
C27_ReportsFollowActiveOrder ==
    /\ \A i \in 1..Len(delivered) : delivered[i].port = activeHist[delivered[i].ver]
    /\ \A i, j \in 1..Len(delivered) : i < j => delivered[i].ver <= delivered[j].ver

\* --------------------------------------------------------- claims: watcher

\* C28: a tracked file whose modification time becomes greater than the
\* recorded one, or whose stat fails, is given to the callback within one
\* full sweep of the scan list (maxIntervalsBeforeUpdate ticks), whatever
\* other paths are dirty, and the record is updated so that the same
\* modification is not reported again.
C28_DirtyPathReportedOnce ==
    \A path \in WatchPaths :
        /\ waiting[path] <= maxIntervalsBeforeUpdate
        /\ reported[path] <= 1

\* the watcher has nothing left to report: no path was given to the callback
\* in the last iteration and every record equals the file's modification time
Settled ==
    /\ dirtyPath = ""
    /\ \A path \in DOMAIN modTimes : wdisk[path] = modTimes[path]

\* C29: after a tracked file is deleted and nothing else changes on disk the
\* callback is invoked for that path only finitely many times, and later
\* modifications of other tracked files are still detected and reported: as
\* the disk changes finitely often, from some iteration on no path is given
\* to the callback and every record is up to date.
C29_DeletedPathSettles == <>[]Settled

\* -------------------------------------------- claims: the subscriber's view

\* the set of spaces a subscriber holds after applying the events of q, in
\* their order, to the set S: "app" adds the space, "deregister" removes it
RECURSIVE ApplyEvents(_, _)
ApplyEvents(S, q) ==
    IF q = <<>> THEN S
    ELSE ApplyEvents(IF Head(q).event = "deregister"
                     THEN S \ {Head(q).space}
                     ELSE S \cup {Head(q).space}, Tail(q))

\* every handler has returned and client c was sent every event that was
\* broadcast, none being dropped by a full queue
SubscriberComplete(c) ==
    /\ cpc[c] = "stream"
    /\ ~overflowed[c]
    /\ \A h \in Handlers : hpc[h] = "idle"
    /\ sent \subseteq Tags(Stream(c))

\* C30: a subscriber whose queue never overflows and who applies the events
\* in the order received ends up with the registry's set of spaces; with a
\* register and a deregister of one space running concurrently, the later of
\* their two events matches the registry once both handlers have returned.
C30_SubscriberEndsWithRegistry ==
    \A c \in Clients :
        SubscriberComplete(c) =>
            ApplyEvents(csnap[c].spaces, Stream(c)) = DOMAIN apps

\* ------------------------------------------------- claims: reallocation

\* the apps LoadState gave a new pair: their restored blue port differs from
\* the one in the state file
Reallocated == { sp \in DOMAIN apps : apps[sp].blue # disk.apps[sp].blue }

PairOf(app) == {app.blue, app.green}

\* C31: after LoadState reallocated the pair of an app whose persisted blue
\* port lies below the configured base, the app's active port is its new blue
\* or its new green port, and the new pair is disjoint from the pair of every
\* other restored app.
C31_ReallocatedPairConsistent ==
    [][ restarts' # restarts =>
          \A sp \in DOMAIN apps' :
              disk.apps[sp].blue < cfgBase' =>
                  /\ apps'[sp].active \in PairOf(apps'[sp])
                  /\ \A other \in DOMAIN apps' \ {sp} :
                        PairOf(apps'[sp]) \cap PairOf(apps'[other]) = {}
      ]_vars

\* ---------------------------------------------- claims: probe and deregister

\* C32: last_registered, when it is not empty, names a space that is in the
\* registry, also while the startup probe runs concurrently with deregister
\* calls for the apps it probes.
C32_LastRegisteredIsRegistered ==
    lastRegistered # "" => lastRegistered \in DOMAIN apps

\* ------------------------------------------------ claims: SaveState snapshot

\* C33: the snapshot SaveState writes equals the registry (apps,
\* last_registered, next_blue_port) as it was at one single instant of the
\* call, also when register, updateHealth or appendLogs run during the save.
C33_SnapshotOfOneInstant ==
    [][ (savePc = "marshal" /\ savePc' = "idle") =>
            Registry(disk'.apps, disk'.lastRegistered, disk'.nextPort1) \in instants
      ]_vars

\* --------------------------------------------------------- claims: Ensure

\* C34: with two supervisors calling Ensure concurrently for the same
\* fingerprint, an app database is only ever cloned from a template on which
\* all migrations have completed, and neither call fails merely because the
\* other one created the template first.
C34_CloneFromMigratedTemplate ==
    \A s \in Supervisors :
        /\ (clones[s].done /\ clones[s].err = "") => clones[s].applied = NumDirs
        /\ tret[s].err = ""
        /\ clones[s].err = ""

\* ------------------------------------------------ claims: redirect loops

\* C35: following the redistributor's redirects leaves the redistributor: no
\* callback request, in particular one whose state has no "space|" prefix or
\* an empty space part, is redirected to a URL that the router dispatches to
\* the redistributor again with the same state.
C35_RedirectLeavesRedistributor ==
    [][ fhops' = fhops + 1 =>
            ~(fhandler' = "handleOAuthBounce" /\ freq'.state = freq.state) ]_vars

\* ------------------------------------------------- claims: initial start

\* some check so far returned HTTP 200 without error
SawHealthy == \E k \in 1..Len(wchecks) : IsHealthy(wchecks[k])

\* C36: the supervisor reports "healthy" for its active port only after a
\* health check on that port returned HTTP 200; at the initial start, if
\* WaitForHealthy(blue) returns false, no "healthy" report is sent.
C36_HealthyOnlyAfter200 ==
    \A k \in 1..Len(rsent) :
        rsent[k][1] = "healthy" => (SawHealthy /\ wret # "false")

\* C37: WaitForHealthy calls the health check at most CheckRetries (N) times,
\* returns true on the first check that returns 200 without error and checks
\* no more after it, returns false after exactly N checks when none
\* succeeded, and sleeps at most N times the interval.
C37_WaitForHealthyBounded ==
    /\ Len(wchecks) <= wn
    /\ wsleeps <= wn
    /\ \A k \in 1..Len(wchecks) :
          IsHealthy(wchecks[k]) => (k = Len(wchecks) /\ wret = "true")
    /\ wret = "true" => (wchecks # <<>> /\ IsHealthy(wchecks[Len(wchecks)]))
    /\ wret = "false" => (Len(wchecks) = wn /\ ~SawHealthy)

C37_Witness ==
    /\ wn = CheckRetries
    /\ wret = "true"
    /\ Len(wchecks) = CheckRetries
    /\ wsleeps = CheckRetries

\* ---------------------------------------------------- claims: debounce

\* the bursts of callbacks: a burst ends where the gap to the next callback
\* is 500 ms or more
Bursts ==
    IF dcalls = <<>> THEN 0
    ELSE 1 + Cardinality({k \in 1..(Len(dcalls) - 1) :
                             dcalls[k + 1] - dcalls[k] >= DebounceTicks})

\* C38: watcher callbacks that arrive within 500 ms of one another are
\* collapsed into a single rebuild: for any burst of callbacks with gaps
\* under 500 ms exactly one rebuild (one Swap or restart) is started.
C38_OneRebuildPerBurst ==
    /\ Len(dstarts) <= Bursts
    /\ (dcalls # <<>> /\ dnow > dcalls[Len(dcalls)] + DebounceTicks)
          => Len(dstarts) = Bursts

\* ------------------------------------------------------- claims: mutexes

\* C39: no daemon thread ever holds the registry mutex and the subscriber
\* mutex at the same time, so no interleaving of handlers, broadcast,
\* subscribe/unsubscribe and the startup probe can deadlock: while some
\* thread has lock operations left, some thread can take its next one.
C39_LocksAreLeaf ==
    /\ \A t \in LockThreads : ~(HoldsMu(t) /\ HoldsSub(t))
    /\ (\E t \in LockThreads : lprog[t] # <<>>) => \E t \in LockThreads : Ready(t)

C39_Witness ==
    /\ "mu.w" \in lheld["probe"]
    /\ HoldsSub("h1")
    /\ lprog["h2"] # <<>>
    /\ Head(lprog["h2"]) = "subMu.Lock"
    /\ ~Ready("h2")

\* --------------------------------------------------- claims: recent list

\* the positions of the recent list whose path is dirty when the iteration
\* begins
RecentHits == { i \in 1..Len(recentItems) : isDirty(TickModTimes, recentItems[i]) }

\* C40: after any number of ticks the recent-dirty list holds at most 16
\* paths, the oldest being dropped when a 17th is added; on every tick its
\* paths are checked before any scan-list entry, so a tick with a dirty
\* recent path reports a recent path; and a hit moves that path to the
\* most-recent position while the other paths keep their relative order.
C40_RecentListDiscipline ==
    [][ rescanCounter' # rescanCounter =>
          /\ Len(recentItems') <= maxRecentItemCount
          /\ RecentHits # {} =>
                \E i \in RecentHits :
                    /\ dirtyPath' = recentItems[i]
                    /\ recentItems' =
                          [j \in 1..Len(recentItems) |->
                              IF j < i THEN recentItems[j]
                              ELSE IF j < Len(recentItems) THEN recentItems[j + 1]
                              ELSE recentItems[i]]
          /\ (RecentHits = {} /\ dirtyPath' # "") =>
                recentItems' =
                    IF Len(recentItems) = maxRecentItemCount
                    THEN Append(Tail(recentItems), dirtyPath')
                    ELSE Append(recentItems, dirtyPath')
          /\ dirtyPath' = "" => recentItems' = recentItems
      ]_vars

C40_Witness ==
    /\ recentItems = SubSeq(ManyOrder, 2, maxRecentItemCount + 1)
    /\ dirtyPath = "p17.go"

====
